---- MODULE Spec2Model ----
(***************************************************************************)
(* Archidrop Desktop: the archive classification-and-organization          *)
(* pipeline of src/src/preload.ts (processFiles, getFilesToProcess,        *)
(* processFile, safeRemoveDir, parseFileName, buildTargetInfo).            *)
(*                                                                         *)
(* File names are sequences of one-character strings, so that the regular  *)
(* expressions, extension handling and trimming of the source are computed *)
(* character by character.                                                 *)
(***************************************************************************)
EXTENDS Integers, Sequences, FiniteSets, TLC

(***************************************************************************)
(* Characters and JavaScript string helpers                                *)
(***************************************************************************)
UpperChars ==
  <<"A","B","C","D","E","F","G","H","I","J","K","L","M","N","O","P","Q","R","S","T","U","V","W","X","Y","Z">>

LowerChars ==
  <<"a","b","c","d","e","f","g","h","i","j","k","l","m","n","o","p","q","r","s","t","u","v","w","x","y","z">>

DigitChars ==
  <<"0","1","2","3","4","5","6","7","8","9">>

IndexOf(c, t) ==
  IF \E i \in 1..Len(t) : t[i] = c THEN CHOOSE i \in 1..Len(t) : t[i] = c ELSE 0

\* s[p], or "" when p is outside the string
At(s, p) ==
  IF p >= 1 /\ p <= Len(s) THEN s[p] ELSE ""

\* regex \d
IsDigit(c) ==
  IndexOf(c, DigitChars) > 0

\* regex \w (ASCII letters, digits, underscore)
IsWord(c) ==
  IsDigit(c) \/ IndexOf(c, UpperChars) > 0 \/ IndexOf(c, LowerChars) > 0 \/ c = "_"

\* regex \s
IsSpace(c) ==
  c = " "

\* regex [_-]
IsSep(c) ==
  c = "_" \/ c = "-"

toLowerCaseChar(c) ==
  IF IndexOf(c, UpperChars) > 0 THEN LowerChars[IndexOf(c, UpperChars)] ELSE c

toUpperCaseChar(c) ==
  IF IndexOf(c, LowerChars) > 0 THEN UpperChars[IndexOf(c, LowerChars)] ELSE c

toLowerCase(s) ==
  [i \in 1..Len(s) |-> toLowerCaseChar(s[i])]

\* String.prototype.trim
trim(s) ==
  IF \A i \in 1..Len(s) : IsSpace(s[i])
  THEN <<>>
  ELSE LET a == CHOOSE i \in 1..Len(s) : ~IsSpace(s[i]) /\ \A j \in 1..(i-1) : IsSpace(s[j])
           b == CHOOSE i \in 1..Len(s) : ~IsSpace(s[i]) /\ \A j \in (i+1)..Len(s) : IsSpace(s[j])
       IN  SubSeq(s, a, b)

\* parseInt(digits, 10) on a non-empty run of digits
RECURSIVE parseInt(_)
parseInt(s) ==
  IF s = <<>> THEN 0
  ELSE 10 * parseInt(SubSeq(s, 1, Len(s) - 1)) + (IndexOf(s[Len(s)], DigitChars) - 1)

\* Number.prototype.toString for a non-negative integer
RECURSIVE toString(_)
toString(n) ==
  IF n < 10 THEN <<DigitChars[n + 1]>>
  ELSE toString(n \div 10) \o <<DigitChars[(n % 10) + 1]>>

Min(a, b) == IF a < b THEN a ELSE b

Max(a, b) == IF a > b THEN a ELSE b

\* the regex character classes \s, \d and \w
InClass(cls, c) ==
  IF cls = "s" THEN IsSpace(c)
  ELSE IF cls = "d" THEN IsDigit(c)
  ELSE IsWord(c)

\* end of the maximal run of characters of class cls that starts at p
RECURSIVE RunEnd(_, _, _)
RunEnd(s, p, cls) ==
  IF p > Len(s) \/ ~InClass(cls, s[p]) THEN p ELSE RunEnd(s, p + 1, cls)

LastDot(s) ==
  IF \E i \in 1..Len(s) : s[i] = "."
  THEN CHOOSE i \in 1..Len(s) : s[i] = "." /\ \A j \in (i+1)..Len(s) : s[j] # "."
  ELSE 0

\* path.extname of a bare file name
extname(name) ==
  IF LastDot(name) <= 1 THEN <<>> ELSE SubSeq(name, LastDot(name), Len(name))

EndsWith(s, suffix) ==
  /\ Len(suffix) <= Len(s)
  /\ SubSeq(s, Len(s) - Len(suffix) + 1, Len(s)) = suffix

\* path.basename(name, ext) of a bare file name; the suffix test is
\* case-sensitive
basename(name, ext) ==
  IF ext # <<>> /\ EndsWith(name, ext)
  THEN SubSeq(name, 1, Len(name) - Len(ext))
  ELSE name

(***************************************************************************)
(* FilenameParser: parseFileName                                           *)
(***************************************************************************)
\* new Date().getFullYear()
CurrentYear == 2026

MONTH_NAMES ==
  << <<"E","n","e","r","o">>, <<"F","e","b","r","e","r","o">>, <<"M","a","r","z","o">>,
     <<"A","b","r","i","l">>, <<"M","a","y","o">>, <<"J","u","n","i","o">>,
     <<"J","u","l","i","o">>, <<"A","g","o","s","t","o">>,
     <<"S","e","p","t","i","e","m","b","r","e">>, <<"O","c","t","u","b","r","e">>,
     <<"N","o","v","i","e","m","b","r","e">>, <<"D","i","c","i","e","m","b","r","e">> >>

MONTH_NAMES_LOWER ==
  << <<"e","n","e","r","o">>, <<"f","e","b","r","e","r","o">>, <<"m","a","r","z","o">>,
     <<"a","b","r","i","l">>, <<"m","a","y","o">>, <<"j","u","n","i","o">>,
     <<"j","u","l","i","o">>, <<"a","g","o","s","t","o">>,
     <<"s","e","p","t","i","e","m","b","r","e">>, <<"o","c","t","u","b","r","e">>,
     <<"n","o","v","i","e","m","b","r","e">>, <<"d","i","c","i","e","m","b","r","e">> >>

MonthAbbreviations ==
  << <<"e","n","e">>, <<"f","e","b">>, <<"m","a","r">>, <<"a","b","r">>,
     <<"m","a","y">>, <<"j","u","n">>, <<"j","u","l">>, <<"a","g","o">>,
     <<"s","e","p">>, <<"o","c","t">>, <<"n","o","v">>, <<"d","i","c">> >>

\* spanishMonths[monthName] || 0
spanishMonths(monthName) ==
  IF IndexOf(monthName, MONTH_NAMES_LOWER) > 0 THEN IndexOf(monthName, MONTH_NAMES_LOWER)
  ELSE IndexOf(monthName, MonthAbbreviations)

\* fileName.replace(/\.[^.]*$/, '')
nameWithoutExt(fileName) ==
  IF LastDot(fileName) = 0 THEN fileName ELSE SubSeq(fileName, 1, LastDot(fileName) - 1)

(* The regular expressions of patterns[] as data: how the match starts and   *)
(* the elements that follow.  Every quantified element of these patterns is  *)
(* followed by an element of a disjoint character class (or by nothing), so  *)
(* its greedy match is the only one that can succeed.                        *)
Ws(min)          == [t |-> "ws", min |-> min]                  \* \s* and \s+
Lit(text)        == [t |-> "lit", text |-> text]               \* literal, flag i
Digits(min, max) == [t |-> "digits", min |-> min, max |-> max] \* (\d{min,max})
Word             == [t |-> "word"]                             \* (\w+)
OptL             == [t |-> "optl"]                             \* the l of (?:de|del)
Sep              == [t |-> "sep"]                              \* [_-]
Rest             == [t |-> "rest"]                             \* (.+) up to the end
End              == [t |-> "end"]                              \* $

patterns ==
  << \* /^(.+?)\s*-\s*(\d{1,2})\s+de\s+(\w+)\s+(?:de|del)\s+(\d{4})$/i
     [start |-> "lazy",
      prog  |-> <<Ws(0), Lit(<<"-">>), Ws(0), Digits(1, 2), Ws(1), Lit(<<"d","e">>), Ws(1),
                  Word, Ws(1), Lit(<<"d","e">>), OptL, Ws(1), Digits(4, 4), End>>],
     \* /^(.+?)\s*-\s*(\w+)\s+(\d{4})$/i
     [start |-> "lazy",
      prog  |-> <<Ws(0), Lit(<<"-">>), Ws(0), Word, Ws(1), Digits(4, 4), End>>],
     \* /^(.+?)\s*-\s*(\w+)\s+(\d{4})$/i
     [start |-> "lazy",
      prog  |-> <<Ws(0), Lit(<<"-">>), Ws(0), Word, Ws(1), Digits(4, 4), End>>],
     \* /(\d{4})[_-](\d{1,2})[_-](\d{1,2})[_-](.+)/
     [start |-> "search",
      prog  |-> <<Digits(4, 4), Sep, Digits(1, 2), Sep, Digits(1, 2), Sep, Rest>>],
     \* /(\d{4})(\d{2})(\d{2})[_-](.+)/
     [start |-> "search",
      prog  |-> <<Digits(4, 4), Digits(2, 2), Digits(2, 2), Sep, Rest>>],
     \* /(.+)[_-](\d{4})[_-](\d{1,2})[_-](\d{1,2})/
     [start |-> "greedy",
      prog  |-> <<Sep, Digits(4, 4), Sep, Digits(1, 2), Sep, Digits(1, 2)>>] >>

\* one element matched at position p: the set of the resulting [pos, groups],
\* empty when the element does not match
StepOne(s, el, p, groups) ==
  IF el.t = "ws" THEN
    {[pos |-> q, groups |-> groups] : q \in {r \in {RunEnd(s, p, "s")} : r - p >= el.min}}
  ELSE IF el.t = "lit" THEN
    IF \A j \in 1..Len(el.text) : toLowerCaseChar(At(s, p + j - 1)) = el.text[j]
    THEN {[pos |-> p + Len(el.text), groups |-> groups]} ELSE {}
  ELSE IF el.t = "digits" THEN
    {[pos |-> p + n, groups |-> Append(groups, SubSeq(s, p, p + n - 1))] :
       n \in {m \in {Min(RunEnd(s, p, "d") - p, el.max)} : m >= el.min}}
  ELSE IF el.t = "word" THEN
    {[pos |-> q, groups |-> Append(groups, SubSeq(s, p, q - 1))] :
       q \in {r \in {RunEnd(s, p, "w")} : r > p}}
  ELSE IF el.t = "optl" THEN
    {[pos |-> IF toLowerCaseChar(At(s, p)) = "l" THEN p + 1 ELSE p, groups |-> groups]}
  ELSE IF el.t = "sep" THEN
    IF IsSep(At(s, p)) THEN {[pos |-> p + 1, groups |-> groups]} ELSE {}
  ELSE IF el.t = "rest" THEN
    IF p <= Len(s) THEN {[pos |-> Len(s) + 1, groups |-> Append(groups, SubSeq(s, p, Len(s)))]}
    ELSE {}
  ELSE
    IF p = Len(s) + 1 THEN {[pos |-> p, groups |-> groups]} ELSE {}

\* the elements prog matched one after the other from position p on
RECURSIVE Run(_, _, _, _)
Run(s, prog, p, groups) ==
  IF prog = <<>> THEN {[pos |-> p, groups |-> groups]}
  ELSE UNION {Run(s, Tail(prog), n.pos, n.groups) : n \in StepOne(s, Head(prog), p, groups)}

\* the attempt number k of a pattern: the first group is the prefix of length
\* k ("lazy", "greedy"), or the match starts at position k ("search")
Attempt(s, pat, k) ==
  IF pat.start = "search" THEN Run(s, pat.prog, k, <<>>)
  ELSE Run(s, pat.prog, k + 1, <<SubSeq(s, 1, k)>>)

\* the attempts in the order the regex engine makes them, from k on; the
\* result is that of the first one that succeeds
RECURSIVE FirstAttempt(_, _, _)
FirstAttempt(s, pat, k) ==
  IF k < 1 \/ k > Len(s) THEN {}
  ELSE UNION {IF r = {} THEN FirstAttempt(s, pat, IF pat.start = "greedy" THEN k - 1 ELSE k + 1)
                       ELSE r : r \in {Attempt(s, pat, k)}}

\* nameWithoutExt.match(pattern): the captured groups, <<>> option when null
match(s, pat) ==
  {m.groups : m \in FirstAttempt(s, pat, IF pat.start = "greedy" THEN Len(s) ELSE 1)}

null == [kind |-> "null"]

\* the values the loop body of parseFileName extracts from the groups g of
\* patterns[i] (i is 0-based as in the source), before validation
Extracted(g, i) ==
  IF i = 0 THEN
    [diary |-> trim(g[1]), hasDay |-> TRUE, day |-> parseInt(g[2]),
     month |-> spanishMonths(toLowerCase(g[3])), year |-> parseInt(g[4])]
  ELSE IF i = 1 \/ i = 2 THEN
    [diary |-> trim(g[1]), hasDay |-> FALSE, day |-> 0,
     month |-> spanishMonths(toLowerCase(g[2])), year |-> parseInt(g[3])]
  ELSE IF i = 3 \/ i = 4 THEN
    [diary |-> trim(g[4]), hasDay |-> TRUE, day |-> parseInt(g[3]),
     month |-> parseInt(g[2]), year |-> parseInt(g[1])]
  ELSE
    [diary |-> trim(g[1]), hasDay |-> TRUE, day |-> parseInt(g[4]),
     month |-> parseInt(g[3]), year |-> parseInt(g[2])]

validYear(x) == x.year >= 1900 /\ x.year <= CurrentYear

validMonth(x) == x.month >= 1 /\ x.month <= 12

validDiary(x) == Len(trim(x.diary)) > 0

validDay(x) == ~x.hasDay \/ (x.day >= 1 /\ x.day <= 31)

\* variant: the day is not validated
ValidatedNoDay(x) ==
  validYear(x) /\ validMonth(x) /\ validDiary(x)

\* validYear && validMonth && validDiary && validDay
Validated(x) ==
  validYear(x) /\ validMonth(x) /\ validDiary(x) /\ validDay(x)

\* the FileInfo returned for validated values
FileInfo(x) ==
  [kind |-> "info", year |-> x.year, month |-> x.month, diary |-> trim(x.diary),
   hasDay |-> x.hasDay, day |-> x.day]

\* variant: a pattern that matches and fails validation ends the search
RECURSIVE FirstValidStopsAtMatch(_, _)
FirstValidStopsAtMatch(s, i) ==
  IF i >= Len(patterns) THEN null
  ELSE CHOOSE v \in
         {IF m = {} THEN FirstValidStopsAtMatch(s, i + 1)
          ELSE CHOOSE w \in {IF Validated(x) THEN FileInfo(x) ELSE null :
                               x \in {Extracted(g, i) : g \in m}} : TRUE
          : m \in {match(s, patterns[i + 1])}} : TRUE

\* the for loop of parseFileName from patterns[i] on
RECURSIVE FirstValid(_, _)
FirstValid(s, i) ==
  IF i >= Len(patterns) THEN null
  ELSE LET found == {FileInfo(x) : x \in {y \in {Extracted(g, i) : g \in match(s, patterns[i + 1])} :
                                            Validated(y)}}
       IN  CHOOSE v \in {IF f = {} THEN FirstValid(s, i + 1) ELSE CHOOSE w \in f : TRUE :
                           f \in {found}} : TRUE

parseFileName(fileName) ==
  FirstValid(nameWithoutExt(fileName), 0)

(***************************************************************************)
(* DestinationResolver: buildTargetInfo                                    *)
(***************************************************************************)
\* String.prototype.padStart(2, '0') of a decimal number
padStart2(s) ==
  IF Len(s) < 2 THEN <<"0">> \o s ELSE s

getMonthFolderName(month) ==
  IF month >= 1 /\ month <= 12
  THEN padStart2(toString(month)) \o <<" ", "-", " ">> \o MONTH_NAMES[month]
  ELSE padStart2(toString(Max(0, Min(month, 99)))) \o <<" ", "-", " ", "M", "e", "s">>

\* variant: the day is never part of the folder name
getDateFolderNameNoDay(fileInfo) ==
  IF ~(fileInfo.month >= 1 /\ fileInfo.month <= 12) \/ fileInfo.year <= 0
  THEN <<>>
  ELSE << <<toUpperCaseChar(MONTH_NAMES_LOWER[fileInfo.month][1])>>
            \o Tail(MONTH_NAMES_LOWER[fileInfo.month])
            \o <<" ", "d", "e", " ">> \o toString(fileInfo.year) >>

\* undefined is the empty option <<>>, a folder name d is <<d>>
getDateFolderName(fileInfo) ==
  IF ~(fileInfo.month >= 1 /\ fileInfo.month <= 12) \/ fileInfo.year <= 0
  THEN <<>>
  ELSE IF fileInfo.hasDay /\ fileInfo.day >= 1 /\ fileInfo.day <= 31
  THEN << toString(fileInfo.day) \o <<" ", "d", "e", " ">> \o MONTH_NAMES_LOWER[fileInfo.month]
            \o <<" ", "d", "e", " ">> \o toString(fileInfo.year) >>
  ELSE << <<toUpperCaseChar(MONTH_NAMES_LOWER[fileInfo.month][1])>>
            \o Tail(MONTH_NAMES_LOWER[fileInfo.month])
            \o <<" ", "d", "e", " ">> \o toString(fileInfo.year) >>

\* Array.prototype.join(' / ')
RECURSIVE joinLabel(_)
joinLabel(parts) ==
  IF Len(parts) = 0 THEN <<>>
  ELSE IF Len(parts) = 1 THEN parts[1]
  ELSE parts[1] \o <<" ", "/", " ">> \o joinLabel(Tail(parts))

\* path.join normalizes the path it builds: a segment "." is dropped and a
\* segment ".." removes the segment before it
RECURSIVE normalize(_, _)
normalize(acc, parts) ==
  IF parts = <<>> THEN acc
  ELSE normalize(IF Head(parts) = <<".">> THEN acc
                 ELSE IF Head(parts) = <<".", ".">> /\ acc # <<>> /\ acc[Len(acc)] # <<".", ".">>
                      THEN SubSeq(acc, 1, Len(acc) - 1)
                 ELSE Append(acc, Head(parts)),
                 Tail(parts))

\* path.join(archivosPath, ...parts): the segments below archivosPath
pathJoin(parts) == normalize(<<>>, parts)

\* variant: the date folder is appended whatever the flag says
buildTargetInfoDated(fileInfo, withDateFolder) ==
  LET monthFolder == getMonthFolderName(fileInfo.month)
      baseTarget  == pathJoin(<<toString(fileInfo.year), monthFolder, fileInfo.diary>>)
      candidate   == getDateFolderName(fileInfo)
  IN  [fullPath       |-> pathJoin(baseTarget \o candidate),
       label          |-> joinLabel(<<toString(fileInfo.year), monthFolder, fileInfo.diary>>
                                      \o candidate),
       dateFolderName |-> candidate]

\* fullPath is the sequence of path segments below archivosPath
buildTargetInfo(fileInfo, withDateFolder) ==
  LET monthFolder == getMonthFolderName(fileInfo.month)
      baseTarget  == pathJoin(<<toString(fileInfo.year), monthFolder, fileInfo.diary>>)
      candidate   == IF withDateFolder THEN getDateFolderName(fileInfo) ELSE <<>>
      labelParts  == <<toString(fileInfo.year), monthFolder, fileInfo.diary>> \o candidate
  IN  [fullPath       |-> pathJoin(baseTarget \o candidate),
       label          |-> joinLabel(labelParts),
       dateFolderName |-> candidate]

(***************************************************************************)
(* Bounds and the universe of inputs                                       *)
(***************************************************************************)
MaxDirFiles == 2      \* entries in the input directory

MaxSelected == 2      \* length of selectedFiles

MaxRetriesBound == 6  \* largest maxRetries passed to a stand-alone safeRemoveDir

\* "A - Dic 1989.zip"
ArchAZip == <<"A"," ","-"," ","D","i","c"," ","1","9","8","9",".","z","i","p">>

\* "A - Dic 1989.rar": same base name as ArchAZip
ArchARar == <<"A"," ","-"," ","D","i","c"," ","1","9","8","9",".","r","a","r">>

\* "B - 1 de dic de 1989.7z"
ArchB7z == <<"B"," ","-"," ","1"," ","d","e"," ","d","i","c"," ","d","e"," ","1","9","8","9",".","7","z">>

\* "x.zip": supported extension, name without date
ArchNoDate == <<"x",".","z","i","p">>

\* "A.B - Dic 1989.ZIP": upper-case extension and a dot in the diary
ArchDotUpper == <<"A",".","B"," ","-"," ","D","i","c"," ","1","9","8","9",".","Z","I","P">>

\* "sub": a subdirectory of the input directory
SubDir == <<"s","u","b">>

\* the names a directory entry or a selected name is drawn from, in the
\* order readdir lists them
Pool == <<ArchAZip, ArchARar, ArchB7z, ArchNoDate, ArchDotUpper, SubDir>>

\* the files that lie inside an entry: the subdirectory holds one archive
InsideOf(name) == IF name = SubDir THEN <<ArchB7z>> ELSE <<>>

PoolNames == {Pool[n] : n \in 1..Len(Pool)}

\* "A.B - Dic 1989.zip": lower-case extension and a dot in the diary
ArchDotLower == <<"A",".","B"," ","-"," ","D","i","c"," ","1","9","8","9",".","z","i","p">>

\* "1989-12-11-L.T.zip": a dated name whose diary has a dot
ArchDatedDot == <<"1","9","8","9","-","1","2","-","1","1","-","L",".","T",".","z","i","p">>

\* the names of a directory of archives with dotted diaries, in the order
\* readdir lists them
DotPool == <<ArchDatedDot, ArchB7z, ArchDotLower>>

DotPoolNames == {DotPool[n] : n \in 1..Len(DotPool)}

\* names of the top-level entries an archive can contain; "d1" is a directory
EntryNames == {"f1", "d1"}

RECURSIVE ListingOf(_)
ListingOf(S) ==
  IF S = {} THEN <<>>
  ELSE LET m == CHOOSE m \in S : \A n \in S : m <= n
       IN  <<[name |-> Pool[m], isFile |-> Pool[m] # SubDir, inside |-> InsideOf(Pool[m])]>>
             \o ListingOf(S \ {m})

Directories ==
  {ListingOf(S) : S \in {T \in SUBSET (1..Len(Pool)) : Cardinality(T) <= MaxDirFiles}}

RECURSIVE DotListingOf(_)
DotListingOf(S) ==
  IF S = {} THEN <<>>
  ELSE LET m == CHOOSE m \in S : \A n \in S : m <= n
       IN  <<[name |-> DotPool[m], isFile |-> TRUE, inside |-> <<>>]>>
             \o DotListingOf(S \ {m})

DotDirectories ==
  {DotListingOf(S) : S \in {T \in SUBSET (1..Len(DotPool)) : Cardinality(T) <= MaxDirFiles}}

\* the selections tried for a directory: the names of its files, the names of
\* the files inside its subdirectories and one name that is not a processable
\* file, in any order and with repetitions
Selections(dir) ==
  LET names == {dir[n].name : n \in {m \in 1..Len(dir) : dir[m].isFile}}
                 \cup UNION {{dir[n].inside[k] : k \in 1..Len(dir[n].inside)} : n \in 1..Len(dir)}
                 \cup {ArchNoDate}
  IN  UNION {[1..n -> names] : n \in 0..MaxSelected}

\* the temporary directories are named after the archive's base name
TempKeys == {basename(n, extname(n)) : n \in PoolNames \cup DotPoolNames}

(***************************************************************************)
(* State                                                                   *)
(***************************************************************************)
VARIABLES
  inputExists,      \* fs.pathExists(inputPath)
  dropboxExists,    \* fs.pathExists(getDropboxPath())
  archivosExists,   \* the folder Dropbox/Archivos exists
  inputDir,         \* readdir(inputPath): sequence of [name, isFile]
  temp,             \* Archivos/temp/<base name>: [exists, entries]
  destDirs,         \* the target directories that exist (paths below Archivos)
  dest,             \* the entries of the target directories: [dir, name, from]
  fs0,              \* the filesystem when processFiles was called
  selectedFiles,    \* argument of processFiles
  deleteOriginals,  \* argument of processFiles
  useDateFolder,    \* argument of processFiles
  pc,               \* the await at which the call is suspended
  files,            \* processFiles: the filtered list
  i,                \* processFiles: loop index
  result,           \* processFiles: result
  events,           \* the ProcessingProgress records handed to onProgress
  tempDir,          \* processFile / safeRemoveDir: dirPath (a key of temp)
  fileInfo,         \* processFile: fileInfo
  moveList,         \* organizeExtractedFiles: files still to be moved
  thrown,           \* processFile: the error caught, <<>> when none
  maxRetries,       \* safeRemoveDir: maxRetries
  attempt,          \* safeRemoveDir: attempt
  removeCalls,      \* number of fs.remove(dirPath) calls of the current safeRemoveDir
  waits,            \* the delays safeRemoveDir has waited in the current call
  rmReturn,         \* who awaits safeRemoveDir: "try", "catch" or "caller"
  log,              \* history: the steps taken, in order
  arg,              \* the argument of a function that is called on its own
  ret,              \* the values such calls have returned, in order
  ui                \* the renderer: the fields of ArchidropApp and its pending requests

fsVars == <<inputExists, dropboxExists, archivosExists, inputDir, temp, destDirs, dest, fs0>>

argVars == <<selectedFiles, deleteOriginals, useDateFolder>>

batchVars == <<files, i, result, events>>

fileVars == <<fileInfo, moveList, thrown>>

rmVars == <<tempDir, maxRetries, attempt, removeCalls, waits, rmReturn>>

callVars == <<arg, ret, ui>>

vars == <<fsVars, argVars, batchVars, fileVars, rmVars, pc, log, callVars>>

\* safeRemoveDir(dirPath, maxRetries = 5)
DefaultMaxRetries == 5

\* delay factor of safeRemoveDir, milliseconds
RetryDelay == 2000

NoTemp == [exists |-> FALSE, entries |-> {}]

Snapshot(ae, dir, t, dd, d) ==
  [archivosExists |-> ae, inputDir |-> dir, temp |-> t, destDirs |-> dd, dest |-> d]

NewResult == [success |-> FALSE, processed |-> 0, errors |-> <<>>, error |-> <<>>]

\* the renderer when the window has been constructed and nothing is pending
NoUi ==
  [zipInputPath |-> "", zipIsProcessing |-> FALSE, zipUseDateFolder |-> FALSE,
   autoOpen |-> FALSE, shown |-> "", settings |-> "done", previews |-> {},
   saves |-> 0, runs |-> <<>>, requests |-> 0, steps |-> 0, refused |-> 0]

\* the state when processFiles is called on one of the directories dirs, the
\* destination root holding one of the sets of entries olds
InitFrom(dirs, olds) ==
  /\ inputExists \in BOOLEAN
  /\ dropboxExists \in BOOLEAN
  /\ dest \in olds
  /\ destDirs = {x.dir : x \in dest}
  /\ archivosExists \in {b \in BOOLEAN : (b => dropboxExists) /\ (dest # {} => b)}
  /\ inputDir \in {d \in dirs : d # <<>> => inputExists}
  /\ temp = [k \in TempKeys |-> NoTemp]
  /\ fs0 = Snapshot(archivosExists, inputDir, temp, destDirs, dest)
  /\ selectedFiles \in Selections(inputDir)
  /\ deleteOriginals \in BOOLEAN
  /\ useDateFolder \in BOOLEAN
  /\ pc = "checkInput"
  /\ files = <<>>
  /\ i = 0
  /\ result = NewResult
  /\ events = <<>>
  /\ tempDir = <<>>
  /\ fileInfo = null
  /\ moveList = <<>>
  /\ thrown = <<>>
  /\ maxRetries = DefaultMaxRetries
  /\ attempt = 0
  /\ removeCalls = 0
  /\ waits = <<>>
  /\ rmReturn = "none"
  /\ log = <<>>
  /\ arg = <<>>
  /\ ret = <<>>
  /\ ui = NoUi

\* the state when processFiles is called, the destination root being empty
Init == InitFrom(Directories, {{}})

(***************************************************************************)
(* FileOrganizer: processFiles, getFilesToProcess, processFile             *)
(***************************************************************************)
supportedExtensions ==
  { <<".","z","i","p">>, <<".","r","a","r">>, <<".","7","z">> }

\* the test getFilesToProcess applies to one directory entry
IsFileToProcess(entry) ==
  LET ext == toLowerCase(extname(entry.name)) IN
  /\ entry.isFile
  /\ ext \in supportedExtensions
  /\ parseFileName(basename(entry.name, ext)) # null

RECURSIVE NamesOf(_)
NamesOf(entries) ==
  IF entries = <<>> THEN <<>> ELSE <<Head(entries).name>> \o NamesOf(Tail(entries))

\* the files of a directory and of its subdirectories
RECURSIVE Walk(_)
Walk(dir) ==
  IF dir = <<>> THEN <<>>
  ELSE (IF Head(dir).isFile THEN <<Head(dir)>>
        ELSE [k \in 1..Len(Head(dir).inside) |->
                [name |-> Head(dir).inside[k], isFile |-> TRUE, inside |-> <<>>]])
       \o Walk(Tail(dir))

\* variant: the scan descends into subdirectories
getFilesToProcessRecursive(dir) ==
  NamesOf(SelectSeq(Walk(dir), IsFileToProcess))

\* readdir of the input directory, stat of each entry: the files with a
\* supported extension whose name parses
getFilesToProcess(dir) ==
  NamesOf(SelectSeq(dir, IsFileToProcess))

\* selectedFiles.includes(fileName)
includes(list, x) ==
  \E n \in 1..Len(list) : list[n] = x

\* variant: the selection is walked and the listing is the filter
FilterBySelection(allFiles, selected) ==
  SelectSeq(selected, LAMBDA f : includes(allFiles, f))

\* allFiles.filter(filePath => selectedFiles.includes(path.basename(filePath)))
FilterSelected(allFiles, selected) ==
  SelectSeq(allFiles, LAMBDA f : includes(selected, f))

\* variant: current counts from one
ProgressNext(current, total, currentFile, percentage) ==
  [current |-> current + 1, total |-> total, currentFile |-> currentFile,
   percentage |-> percentage]

\* a ProcessingProgress; percentage is the fraction <<numerator, denominator>>
Progress(current, total, currentFile, percentage) ==
  [current |-> current, total |-> total, currentFile |-> currentFile,
   percentage |-> percentage]

Logged(op) ==
  log' = Append(log, [op |-> op, file |-> i])

\* variant: the outer catch rethrows
FatalRaises(msg) ==
  /\ result' = result
  /\ pc' = "raised"

\* variant: the outer catch returns without storing the message
FatalSilent(msg) ==
  /\ result' = result
  /\ pc' = "done"

\* the outer catch of processFiles
Fatal(msg) ==
  /\ result' = [result EXCEPT !.error = <<msg>>]
  /\ pc' = "done"

CheckInput ==
  /\ pc = "checkInput"
  /\ IF ~inputExists
     THEN Fatal("La carpeta de entrada no existe")
     ELSE pc' = "checkDropbox" /\ UNCHANGED result
  /\ UNCHANGED <<fsVars, argVars, callVars, files, i, events, fileVars, rmVars, log>>

\* variant: the Dropbox directory is not validated
CheckDropboxSkipped ==
  /\ pc = "checkDropbox"
  /\ pc' = "scan"
  /\ UNCHANGED result
  /\ UNCHANGED <<fsVars, argVars, callVars, files, i, events, fileVars, rmVars, log>>

CheckDropbox ==
  /\ pc = "checkDropbox"
  /\ IF ~dropboxExists
     THEN Fatal("La carpeta de Dropbox no existe")
     ELSE pc' = "scan" /\ UNCHANGED result
  /\ UNCHANGED <<fsVars, argVars, callVars, files, i, events, fileVars, rmVars, log>>

\* getFilesToProcess returns, the list is filtered and onProgress is called
\* for the first time
Scan ==
  /\ pc = "scan"
  /\ LET selected == FilterSelected(getFilesToProcess(inputDir), selectedFiles) IN
     /\ files' = selected
     /\ IF Len(selected) = 0
        THEN /\ Fatal("No se encontraron archivos seleccionados para procesar")
             /\ UNCHANGED events
        ELSE /\ events' = Append(events, Progress(0, Len(selected), <<>>, <<0, 1>>))
             /\ \/ pc' = "loop" /\ UNCHANGED result
                \/ Fatal("onProgress")
  /\ UNCHANGED <<fsVars, argVars, callVars, i, fileVars, rmVars, log>>

\* fs.readdir or fs.stat rejects inside getFilesToProcess
ScanFails ==
  /\ pc = "scan"
  /\ Fatal("readdir")
  /\ UNCHANGED <<fsVars, argVars, callVars, files, i, events, fileVars, rmVars, log>>

\* variant: the catch block of processFile rethrows without cleaning up
ThrowNoCleanup(err) ==
  /\ thrown' = <<err>>
  /\ attempt' = 1
  /\ removeCalls' = 0
  /\ waits' = <<>>
  /\ rmReturn' = "catch"
  /\ pc' = "fileErr"
  /\ log' = Append(log, [op |-> "throw", file |-> i, err |-> err])

\* processFile throws err inside its try block: the catch block calls safeRemoveDir
Throw(err) ==
  /\ thrown' = <<err>>
  /\ attempt' = 1
  /\ removeCalls' = 0
  /\ waits' = <<>>
  /\ rmReturn' = "catch"
  /\ pc' = "remove"
  /\ log' = log \o <<[op |-> "throw", file |-> i, err |-> err],
                      [op |-> "safeRemoveDir", file |-> i, dir |-> tempDir]>>

\* one iteration of the loop up to the first await of processFile
LoopIter ==
  /\ pc = "loop"
  /\ i < Len(files)
  /\ LET file == files[i + 1]
         fileName == basename(file, extname(file))
         info == parseFileName(fileName)
     IN
     /\ events' = Append(events, Progress(i, Len(files), file, <<i * 100, Len(files)>>))
     /\ \/ /\ Fatal("onProgress")
           /\ UNCHANGED <<i, tempDir, fileInfo, log>>
        \/ /\ info = null
           /\ result' = [result EXCEPT !.errors = Append(@,
                  [kind |-> "Error procesando", fileName |-> file,
                   detail |-> "No se pudo parsear el nombre del archivo"])]
           /\ i' = i + 1
           /\ pc' = "loop"
           /\ Logged("error")
           /\ UNCHANGED <<tempDir, fileInfo>>
        \/ /\ info # null
           /\ tempDir' = fileName
           /\ fileInfo' = info
           /\ pc' = "ensureTemp"
           /\ Logged("start")
           /\ UNCHANGED <<i, result>>
  /\ thrown' = <<>>
  /\ moveList' = <<>>
  /\ UNCHANGED <<fsVars, argVars, callVars, files, maxRetries, attempt, removeCalls, waits, rmReturn>>

\* variant: the last event shows an empty progress bar
LoopExitResets ==
  /\ pc = "loop"
  /\ i >= Len(files)
  /\ events' = Append(events, Progress(0, Len(files), <<>>, <<0, 1>>))
  /\ \/ /\ result' = [result EXCEPT !.success = TRUE]
        /\ pc' = "done"
     \/ Fatal("onProgress")
  /\ UNCHANGED <<fsVars, argVars, callVars, files, i, fileVars, rmVars, log>>

\* variant: success only when no file failed
LoopExitStrict ==
  /\ pc = "loop"
  /\ i >= Len(files)
  /\ events' = Append(events, Progress(Len(files), Len(files), <<>>, <<100, 1>>))
  /\ \/ /\ result' = [result EXCEPT !.success = (result.errors = <<>>)]
        /\ pc' = "done"
     \/ Fatal("onProgress")
  /\ UNCHANGED <<fsVars, argVars, callVars, files, i, fileVars, rmVars, log>>

\* the loop is over: last onProgress, success
LoopExit ==
  /\ pc = "loop"
  /\ i >= Len(files)
  /\ events' = Append(events, Progress(Len(files), Len(files), <<>>, <<100, 1>>))
  /\ \/ /\ result' = [result EXCEPT !.success = TRUE]
        /\ pc' = "done"
     \/ Fatal("onProgress")
  /\ UNCHANGED <<fsVars, argVars, callVars, files, i, fileVars, rmVars, log>>

\* variant: the target directory is created together with the temporary one
EnsureTempAndTarget ==
  /\ pc = "ensureTemp"
  /\ \/ /\ temp' = [temp EXCEPT ![tempDir].exists = TRUE]
        /\ archivosExists' = TRUE
        /\ destDirs' = destDirs \cup {buildTargetInfo(fileInfo, useDateFolder).fullPath}
        /\ pc' = "extract"
        /\ Logged("ensureTemp")
        /\ UNCHANGED <<thrown, attempt, removeCalls, waits, rmReturn>>
     \/ /\ Throw("ensureDir tempDir")
        /\ UNCHANGED <<temp, archivosExists, destDirs>>
  /\ UNCHANGED <<inputExists, dropboxExists, inputDir, dest, fs0, argVars, callVars,
                 batchVars, fileInfo, moveList, tempDir, maxRetries>>

\* fs.ensureDir(tempDir)
EnsureTemp ==
  /\ pc = "ensureTemp"
  /\ \/ /\ temp' = [temp EXCEPT ![tempDir].exists = TRUE]
        /\ archivosExists' = TRUE
        /\ pc' = "extract"
        /\ Logged("ensureTemp")
        /\ UNCHANGED <<thrown, attempt, removeCalls, waits, rmReturn>>
     \/ /\ Throw("ensureDir tempDir")
        /\ UNCHANGED <<temp, archivosExists>>
  /\ UNCHANGED <<inputExists, dropboxExists, inputDir, destDirs, dest, fs0, argVars, callVars,
                 batchVars, fileInfo, moveList, tempDir, maxRetries>>

\* the entries an extraction of archive file writes into a directory
Extracted2(old, file, names) ==
  {e \in old : e.name \notin names} \cup {[name |-> n, from |-> file] : n \in names}

\* variant: the extension is taken as it is written
extensionAsWritten(filePath) == extname(filePath)

\* extractFile: path.extname(filePath).toLowerCase()
extension(filePath) == toLowerCase(extname(filePath))

IsZip(file) == extension(file) = <<".","z","i","p">>

Is7z(file) == extension(file) \in { <<".","r","a","r">>, <<".","7","z">> }

\* the command extractFile spawns for a path, "none" when it spawns nothing
commandOf(filePath) ==
  IF IsZip(filePath) THEN "powershell.exe"
  ELSE IF Is7z(filePath) THEN "7z"
  ELSE "none"

\* extractFile(filePath, tempDir): the tool wrote the entries named names and
\* ended with the outcome how
ExtractError(file, how) ==
  IF IsZip(file)
  THEN IF how = "exit" THEN "Error al extraer archivo ZIP"
       ELSE "Error ejecutando comando de extraccion ZIP"
  ELSE IF Is7z(file)
  THEN IF how = "exit" THEN "Error al extraer archivo: codigo de salida"
       ELSE IF how = "ENOENT" THEN "Para extraer archivos .rar y .7z necesitas instalar 7-Zip desde https://www.7-zip.org/"
       ELSE "Error ejecutando comando de extraccion"
  ELSE "Formato de archivo no soportado"

\* what a tool that ends with a non-zero exit code may have written
PartialExtractions == {{}, {"f1"}}

extractFile ==
  /\ pc = "extract"
  /\ LET file == files[i + 1] IN
     \/ /\ IsZip(file) \/ Is7z(file)
        /\ \E names \in SUBSET EntryNames :
             /\ temp' = [temp EXCEPT ![tempDir].entries = Extracted2(@, file, names)]
             /\ log' = Append(log, [op |-> "extract", file |-> i,
                                     n |-> Cardinality(temp'[tempDir].entries),
                                     names |-> names])
        /\ pc' = "readTemp"
        /\ UNCHANGED <<thrown, attempt, removeCalls, waits, rmReturn>>
     \/ /\ IsZip(file) \/ Is7z(file)
        /\ \E names \in PartialExtractions :
             temp' = [temp EXCEPT ![tempDir].entries = Extracted2(@, file, names)]
        /\ Throw(ExtractError(file, "exit"))
     \/ /\ \E how \in {"ENOENT", "spawn"} : Throw(ExtractError(file, how))
        /\ UNCHANGED temp
  /\ UNCHANGED <<inputExists, dropboxExists, archivosExists, inputDir, destDirs, dest, fs0,
                 argVars, callVars, batchVars, fileInfo, moveList, tempDir, maxRetries>>

\* readdir lists the entries in a fixed order
EntryOrder == <<"d1", "f1">>

readdir(entries) ==
  LET present == SelectSeq(EntryOrder, LAMBDA n : \E e \in entries : e.name = n)
  IN  [k \in 1..Len(present) |-> CHOOSE e \in entries : e.name = present[k]]

\* variant: the listing of the temporary directory is not checked
ReadTempNoCheck ==
  /\ pc = "readTemp"
  /\ moveList' = readdir(temp[tempDir].entries)
  /\ pc' = "ensureTarget"
  /\ log' = Append(log, [op |-> "check", file |-> i,
                          n |-> Len(readdir(temp[tempDir].entries))])
  /\ UNCHANGED <<thrown, attempt, removeCalls, waits, rmReturn>>
  /\ UNCHANGED <<fsVars, argVars, callVars, batchVars, fileInfo, tempDir, maxRetries>>

\* the non-empty check of processFile; organizeExtractedFiles up to ensureDir
ReadTemp ==
  /\ pc = "readTemp"
  /\ IF temp[tempDir].entries = {}
     THEN /\ Throw("No se extrajeron archivos del archivo comprimido")
          /\ UNCHANGED moveList
     ELSE /\ moveList' = readdir(temp[tempDir].entries)
          /\ pc' = "ensureTarget"
          /\ log' = Append(log, [op |-> "check", file |-> i,
                                  n |-> Len(readdir(temp[tempDir].entries))])
          /\ UNCHANGED <<thrown, attempt, removeCalls, waits, rmReturn>>
  /\ UNCHANGED <<fsVars, argVars, callVars, batchVars, fileInfo, tempDir, maxRetries>>

\* variant: a directory among the extracted entries gives the target
\* directory one more level
targetDirByContents ==
  buildTargetInfo(fileInfo, useDateFolder).fullPath
    \o (IF \E n \in 1..Len(log) :
              log[n].op = "extract" /\ log[n].file = i /\ "d1" \in log[n].names
         THEN << <<"d","1">> >> ELSE <<>>)

\* organizeExtractedFiles: targetInfo.fullPath
targetDir == buildTargetInfo(fileInfo, useDateFolder).fullPath

\* fs.ensureDir(targetDir)
EnsureTarget ==
  /\ pc = "ensureTarget"
  /\ \/ /\ destDirs' = destDirs \cup {targetDir}
        /\ pc' = "move"
        /\ log' = Append(log, [op |-> "ensureTarget", file |-> i, dir |-> targetDir])
        /\ UNCHANGED <<thrown, attempt, removeCalls, waits, rmReturn>>
     \/ /\ Throw("ensureDir targetDir")
        /\ UNCHANGED destDirs
  /\ UNCHANGED <<inputExists, dropboxExists, archivosExists, inputDir, temp, dest, fs0,
                 argVars, callVars, batchVars, fileInfo, moveList, tempDir, maxRetries>>

\* variant: an entry that is already in the target directory is kept
MoveKeepsExisting ==
  /\ pc = "move"
  /\ moveList # <<>>
  /\ LET e == Head(moveList) IN
     \/ /\ dest' = IF \E x \in dest : x.dir = targetDir /\ x.name = e.name THEN dest
                     ELSE dest \cup {[dir |-> targetDir, name |-> e.name, from |-> e.from]}
        /\ temp' = [temp EXCEPT ![tempDir].entries = @ \ {e}]
        /\ moveList' = Tail(moveList)
        /\ IF Tail(moveList) = <<>>
           THEN /\ attempt' = 1
                /\ removeCalls' = 0
                /\ waits' = <<>>
                /\ rmReturn' = "try"
                /\ pc' = "remove"
                /\ log' = log \o <<[op |-> "move", file |-> i],
                                    [op |-> "safeRemoveDir", file |-> i, dir |-> tempDir]>>
           ELSE /\ pc' = "move"
                /\ Logged("move")
                /\ UNCHANGED <<attempt, removeCalls, waits, rmReturn>>
        /\ UNCHANGED thrown
     \/ /\ Throw("move")
        /\ UNCHANGED <<dest, temp, moveList>>
  /\ UNCHANGED <<inputExists, dropboxExists, archivosExists, inputDir, destDirs, fs0,
                 argVars, callVars, batchVars, fileInfo, tempDir, maxRetries>>

\* fs.move(filePath, targetPath, { overwrite: true }) of the next entry; after
\* the last one processFile calls safeRemoveDir(tempDir)
Move ==
  /\ pc = "move"
  /\ moveList # <<>>
  /\ LET e == Head(moveList) IN
     \/ /\ dest' = {x \in dest : ~(x.dir = targetDir /\ x.name = e.name)}
                     \cup {[dir |-> targetDir, name |-> e.name, from |-> e.from]}
        /\ temp' = [temp EXCEPT ![tempDir].entries = @ \ {e}]
        /\ moveList' = Tail(moveList)
        /\ IF Tail(moveList) = <<>>
           THEN /\ attempt' = 1
                /\ removeCalls' = 0
                /\ waits' = <<>>
                /\ rmReturn' = "try"
                /\ pc' = "remove"
                /\ log' = log \o <<[op |-> "move", file |-> i],
                                    [op |-> "safeRemoveDir", file |-> i, dir |-> tempDir]>>
           ELSE /\ pc' = "move"
                /\ Logged("move")
                /\ UNCHANGED <<attempt, removeCalls, waits, rmReturn>>
        /\ UNCHANGED thrown
     \/ /\ Throw("move")
        /\ UNCHANGED <<dest, temp, moveList>>
  /\ UNCHANGED <<inputExists, dropboxExists, archivosExists, inputDir, destDirs, fs0,
                 argVars, callVars, batchVars, fileInfo, tempDir, maxRetries>>

(***************************************************************************)
(* SafeRemover: safeRemoveDir                                              *)
(***************************************************************************)
\* safeRemoveDir returns to the code that awaits it
AfterRemove ==
  IF rmReturn = "try" THEN "fileOk"
  ELSE IF rmReturn = "catch" THEN "fileErr"
  ELSE "removed"

\* variant: the last pass is recognised one pass early
IsLastAttemptEarly ==
  attempt >= maxRetries - 1

\* if (attempt === maxRetries)
IsLastAttempt ==
  attempt = maxRetries

\* variant: the last failure is rethrown to processFile
ExhaustedThrows ==
  "fileErr"

\* the retries are exhausted: console.error and return, nothing is thrown
ExhaustedReturn ==
  AfterRemove

\* variant: every wait has the same length
retryWaitFixed(n) == RetryDelay

\* setTimeout(resolve, attempt * 2000)
retryWait(n) == n * RetryDelay

\* one pass of the for loop of safeRemoveDir; after a failed pass that is not
\* the last one it waits attempt * 2000 ms and starts the next pass
safeRemoveDir ==
  /\ pc = "remove"
  /\ \/ \* the loop condition fails, or the path does not exist: return
        /\ attempt > maxRetries \/ ~temp[tempDir].exists
        /\ pc' = AfterRemove
        /\ UNCHANGED <<temp, removeCalls, attempt, waits, log>>
     \/ \* fs.remove succeeds
        /\ attempt <= maxRetries /\ temp[tempDir].exists
        /\ temp' = [temp EXCEPT ![tempDir] = NoTemp]
        /\ removeCalls' = removeCalls + 1
        /\ pc' = AfterRemove
        /\ UNCHANGED <<attempt, waits, log>>
     \/ \* fs.remove throws on the last pass: return without waiting
        /\ attempt <= maxRetries /\ temp[tempDir].exists
        /\ IsLastAttempt
        /\ removeCalls' = removeCalls + 1
        /\ pc' = ExhaustedReturn
        /\ Logged("cleanupFailed")
        /\ UNCHANGED <<temp, attempt, waits>>
     \/ \* fs.remove throws on an earlier pass: wait, then the next pass
        /\ attempt <= maxRetries /\ temp[tempDir].exists
        /\ ~IsLastAttempt
        /\ removeCalls' = removeCalls + 1
        /\ waits' = Append(waits, retryWait(attempt))
        /\ attempt' = attempt + 1
        /\ pc' = "remove"
        /\ UNCHANGED <<temp, log>>
  /\ UNCHANGED <<inputExists, dropboxExists, archivosExists, inputDir, destDirs, dest, fs0,
                 argVars, callVars, batchVars, fileVars, tempDir, maxRetries, rmReturn>>

(***************************************************************************)
(* processFiles: after processFile                                         *)
(***************************************************************************)
\* the locals of the safeRemoveDir call that has returned are gone
RemoveLocalsGone ==
  /\ attempt' = 0
  /\ removeCalls' = 0
  /\ waits' = <<>>
  /\ rmReturn' = "none"

\* variant: the source archive is removed whatever deleteOriginals says
FileOkAlwaysDeletes ==
  /\ pc = "fileOk"
  /\ result' = [result EXCEPT !.processed = @ + 1]
  /\ Logged("processed")
  /\ pc' = "deleteOriginal"
  /\ UNCHANGED i
  /\ RemoveLocalsGone
  /\ UNCHANGED <<fsVars, argVars, callVars, files, events, fileVars, tempDir, maxRetries>>

\* variant: the removal of the source archive is started and not awaited
FileOkNoAwait ==
  /\ pc = "fileOk"
  /\ result' = [result EXCEPT !.processed = @ + 1]
  /\ Logged("processed")
  /\ pc' = "loop"
  /\ i' = i + 1
  /\ RemoveLocalsGone
  /\ UNCHANGED <<fsVars, argVars, callVars, files, events, fileVars, tempDir, maxRetries>>

\* processFile returned: result.processed++
FileOk ==
  /\ pc = "fileOk"
  /\ result' = [result EXCEPT !.processed = @ + 1]
  /\ Logged("processed")
  /\ IF deleteOriginals
     THEN pc' = "deleteOriginal" /\ UNCHANGED i
     ELSE pc' = "loop" /\ i' = i + 1
  /\ RemoveLocalsGone
  /\ UNCHANGED <<fsVars, argVars, callVars, files, events, fileVars, tempDir, maxRetries>>

\* variant: a failed removal of the source archive makes the file a failure
DeleteOriginalStrict ==
  /\ pc = "deleteOriginal"
  /\ LET file == files[i + 1] IN
     \/ /\ inputDir' = SelectSeq(inputDir, LAMBDA e : e.name # file)
        /\ Logged("deleteOriginal")
        /\ UNCHANGED result
     \/ /\ result' = [result EXCEPT !.processed = @ - 1,
                                     !.errors = Append(@,
               [kind |-> "Error procesando", fileName |-> file,
                detail |-> "No se pudo eliminar el archivo original"])]
        /\ Logged("warning")
        /\ UNCHANGED inputDir
  /\ i' = i + 1
  /\ pc' = "loop"
  /\ UNCHANGED <<inputExists, dropboxExists, archivosExists, temp, destDirs, dest, fs0,
                 argVars, callVars, files, events, fileVars, rmVars>>

\* fs.remove(file) of the source archive
DeleteOriginal ==
  /\ pc = "deleteOriginal"
  /\ LET file == files[i + 1] IN
     \/ /\ inputDir' = SelectSeq(inputDir, LAMBDA e : e.name # file)
        /\ Logged("deleteOriginal")
        /\ UNCHANGED result
     \/ /\ result' = [result EXCEPT !.errors = Append(@,
               [kind |-> "Advertencia", fileName |-> file,
                detail |-> "No se pudo eliminar el archivo original"])]
        /\ Logged("warning")
        /\ UNCHANGED inputDir
  /\ i' = i + 1
  /\ pc' = "loop"
  /\ UNCHANGED <<inputExists, dropboxExists, archivosExists, temp, destDirs, dest, fs0,
                 argVars, callVars, files, events, fileVars, rmVars>>

\* variant: the first failed file ends the batch
FileErrAborts ==
  /\ pc = "fileErr"
  /\ result' = [result EXCEPT !.errors = Append(@,
         [kind |-> "Error procesando", fileName |-> files[i + 1],
          detail |-> IF thrown = <<>> THEN "Error desconocido" ELSE thrown[1]])]
  /\ Logged("error")
  /\ pc' = "done"
  /\ UNCHANGED i
  /\ RemoveLocalsGone
  /\ UNCHANGED <<fsVars, argVars, callVars, files, events, fileVars, tempDir, maxRetries>>

\* variant: a file that failed is counted as processed as well
FileErrCounts ==
  /\ pc = "fileErr"
  /\ result' = [result EXCEPT !.processed = @ + 1, !.errors = Append(@,
         [kind |-> "Error procesando", fileName |-> files[i + 1],
          detail |-> IF thrown = <<>> THEN "Error desconocido" ELSE thrown[1]])]
  /\ Logged("error")
  /\ i' = i + 1
  /\ pc' = "loop"
  /\ RemoveLocalsGone
  /\ UNCHANGED <<fsVars, argVars, callVars, files, events, fileVars, tempDir, maxRetries>>

\* processFile rejected: the inner catch of processFiles
FileErr ==
  /\ pc = "fileErr"
  /\ result' = [result EXCEPT !.errors = Append(@,
         [kind |-> "Error procesando", fileName |-> files[i + 1],
          detail |-> IF thrown = <<>> THEN "Error desconocido" ELSE thrown[1]])]
  /\ Logged("error")
  /\ i' = i + 1
  /\ pc' = "loop"
  /\ RemoveLocalsGone
  /\ UNCHANGED <<fsVars, argVars, callVars, files, events, fileVars, tempDir, maxRetries>>

Next ==
  \/ CheckInput
  \/ CheckDropbox
  \/ Scan
  \/ ScanFails
  \/ LoopIter
  \/ LoopExit
  \/ EnsureTemp
  \/ extractFile
  \/ ReadTemp
  \/ EnsureTarget
  \/ Move
  \/ safeRemoveDir
  \/ FileOk
  \/ DeleteOriginal
  \/ FileErr

Spec == Init /\ [][Next]_vars

(***************************************************************************)
(* safeRemoveDir(dirPath, maxRetries) called on its own                    *)
(***************************************************************************)
InitRemove ==
  /\ inputExists = TRUE
  /\ dropboxExists = TRUE
  /\ archivosExists = TRUE
  /\ inputDir = <<>>
  /\ tempDir \in TempKeys
  /\ \E k \in TempKeys, names \in SUBSET EntryNames :
       temp = [t \in TempKeys |->
                 IF t = k THEN [exists |-> TRUE, entries |-> Extracted2({}, ArchAZip, names)]
                 ELSE NoTemp]
  /\ destDirs = {}
  /\ dest = {}
  /\ fs0 = Snapshot(archivosExists, inputDir, temp, destDirs, dest)
  /\ selectedFiles = <<>>
  /\ deleteOriginals = FALSE
  /\ useDateFolder = FALSE
  /\ pc = "remove"
  /\ files = <<>>
  /\ i = 0
  /\ result = NewResult
  /\ events = <<>>
  /\ fileInfo = null
  /\ moveList = <<>>
  /\ thrown = <<>>
  /\ maxRetries \in 0..MaxRetriesBound
  /\ attempt = 1
  /\ removeCalls = 0
  /\ waits = <<>>
  /\ rmReturn = "caller"
  /\ log = <<>>
  /\ arg = <<>>
  /\ ret = <<>>
  /\ ui = NoUi

NextRemove ==
  safeRemoveDir

SpecRemove == InitRemove /\ [][NextRemove]_vars

(***************************************************************************)
(* processFiles with a destination root that already holds entries        *)
(***************************************************************************)
\* the archive an entry found in the destination root came from
OLD == <<"o","l","d">>

\* a directory of the destination root that no archive of the pool is
\* organised into
OtherDir == << <<"1","9","0","0">>, <<"0","1"," ","-"," ","E","n","e","r","o">>, <<"C">> >>

\* entries found in the destination root: "f1" and "keep" in the directories
\* "A - Dic 1989" is organised into with and without date folder, "f1" in
\* another directory
OldEntries ==
  {[dir |-> buildTargetInfo(parseFileName(ArchAZip), b).fullPath, name |-> n, from |-> OLD] :
     b \in BOOLEAN, n \in {"f1", "keep"}}
  \cup {[dir |-> OtherDir, name |-> "f1", from |-> OLD]}

\* directories that hold archives with the same base name
FrameDirectories == {ListingOf(S) : S \in SUBSET {1, 2}}

InitFrame == InitFrom(FrameDirectories, {{}, OldEntries})

SpecFrame == InitFrame /\ [][Next]_vars

(***************************************************************************)
(* processFiles on a directory of archives with dotted diaries             *)
(***************************************************************************)
InitDot == InitFrom(DotDirectories, {{}})

SpecDot == InitDot /\ [][Next]_vars

(***************************************************************************)
(* previewFiles                                                            *)
(***************************************************************************)
\* getAllFiles(dirPath): the entries of the directory that are files
getAllFiles(dir) ==
  NamesOf(SelectSeq(dir, LAMBDA e : e.isFile))

\* variant: the items of the previous call are still in the result
KeptPreviewResult ==
  [success |-> FALSE,
   items |-> IF ret = <<>> THEN <<>> ELSE ret[Len(ret)].items,
   totalFiles |-> 0, processableFiles |-> 0, error |-> <<>>]

\* the PreviewResult a call of previewFiles starts from
NewPreviewResult ==
  [success |-> FALSE, items |-> <<>>, totalFiles |-> 0, processableFiles |-> 0,
   error |-> <<>>]

\* variant: the extension is compared as it is written
PreviewItemCaseSensitive(fileName, withDateFolder) ==
  IF extname(fileName) \notin supportedExtensions THEN <<>>
  ELSE CHOOSE v \in
         {IF info = null THEN <<>>
          ELSE CHOOSE w \in
                 {<<[fileName |-> fileName, willProcess |-> TRUE,
                     targetPath |-> t.fullPath, targetPathLabel |-> t.label,
                     parsedInfo |-> info, dateFolderName |-> t.dateFolderName]>> :
                    t \in {buildTargetInfo(info, withDateFolder)}} : TRUE
          : info \in {parseFileName(fileName)}} : TRUE

\* the PreviewItem of a file with a supported extension whose name parses,
\* as an option: <<>> when the file is left out
PreviewItem(fileName, withDateFolder) ==
  IF toLowerCase(extname(fileName)) \notin supportedExtensions THEN <<>>
  ELSE CHOOSE v \in
         {IF info = null THEN <<>>
          ELSE CHOOSE w \in
                 {<<[fileName |-> fileName, willProcess |-> TRUE,
                     targetPath |-> t.fullPath, targetPathLabel |-> t.label,
                     parsedInfo |-> info, dateFolderName |-> t.dateFolderName]>> :
                    t \in {buildTargetInfo(info, withDateFolder)}} : TRUE
          : info \in {parseFileName(fileName)}} : TRUE

\* the for loop of previewFiles over allFiles
RECURSIVE PreviewItems(_, _)
PreviewItems(allFiles, withDateFolder) ==
  IF allFiles = <<>> THEN <<>>
  ELSE PreviewItem(Head(allFiles), withDateFolder) \o PreviewItems(Tail(allFiles), withDateFolder)

previewFiles(inExists, dbExists, dir, withDateFolder) ==
  IF ~inExists THEN [NewPreviewResult EXCEPT !.error = <<"La carpeta de entrada no existe">>]
  ELSE IF ~dbExists THEN [NewPreviewResult EXCEPT !.error = <<"La carpeta de Dropbox no existe">>]
  ELSE CHOOSE v \in
         {[success |-> TRUE, items |-> NewPreviewResult.items \o items,
           totalFiles |-> Len(getAllFiles(dir)),
           processableFiles |-> NewPreviewResult.processableFiles + Len(items),
           error |-> <<>>] : items \in {PreviewItems(getAllFiles(dir), withDateFolder)}} : TRUE

(***************************************************************************)
(* parseFileName, buildTargetInfo and previewFiles called on their own     *)
(***************************************************************************)
\* "A - Dic 1989.txt": a name that parses, with an extension that is not
\* an archive's
ArchATxt == <<"A"," ","-"," ","D","i","c"," ","1","9","8","9",".","t","x","t">>

\* the names an entry of a previewed directory is drawn from
PreviewPool == Pool \o <<ArchATxt>>

RECURSIVE PreviewListingOf(_)
PreviewListingOf(S) ==
  IF S = {} THEN <<>>
  ELSE LET m == CHOOSE m \in S : \A n \in S : m <= n
       IN  <<[name |-> PreviewPool[m], isFile |-> PreviewPool[m] # SubDir,
              inside |-> InsideOf(PreviewPool[m])]>>
             \o PreviewListingOf(S \ {m})

PreviewDirectories ==
  {PreviewListingOf(S) :
     S \in {T \in SUBSET (1..Len(PreviewPool)) : Cardinality(T) <= MaxDirFiles}}

\* pieces of file names
SEP3 == <<" ","-"," ">>

DE == <<" ","d","e"," ">>

DEL == <<" ","d","e","l"," ">>

DIARY_A == <<"A">>

\* a diary with a dot
DIARY_LT == <<"L",".","T">>

\* a diary that ends with digits
DIARY_C13 == <<"C","a","n","a","l"," ","1","3">>

BLANK == <<" ">>

M_DICIEMBRE == <<"d","i","c","i","e","m","b","r","e">>

M_DIC_CAP == <<"D","i","c">>

M_ENERO_UP == <<"E","N","E","R","O">>

\* not a name of the month table
M_SEPT == <<"s","e","p","t">>

EXT_ZIP == <<".","z","i","p">>

EXT_RAR_UP == <<".","R","A","R">>

\* the parts a file name is written from
NameParts(form, diary, day, monthName, monthNum, year, conj, ext) ==
  [form |-> form, diary |-> diary, day |-> day, monthName |-> monthName,
   monthNum |-> monthNum, year |-> year, conj |-> conj, ext |-> ext]

\* the file name written from its parts
NameOf(r) ==
  IF r.form = "dmy" THEN        \* "<Diary> - <day> de <Month> de <YYYY>"
    r.diary \o SEP3 \o toString(r.day) \o DE \o r.monthName \o r.conj \o toString(r.year) \o r.ext
  ELSE IF r.form = "my" THEN    \* "<Diary> - <Month> <YYYY>"
    r.diary \o SEP3 \o r.monthName \o <<" ">> \o toString(r.year) \o r.ext
  ELSE IF r.form = "ymd" THEN   \* "YYYY-M-D-<Diary>"
    toString(r.year) \o <<"-">> \o toString(r.monthNum) \o <<"-">> \o toString(r.day)
      \o <<"-">> \o r.diary \o r.ext
  ELSE IF r.form = "compact" THEN \* "YYYYMMDD_<Diary>"
    toString(r.year) \o padStart2(toString(r.monthNum)) \o padStart2(toString(r.day))
      \o <<"_">> \o r.diary \o r.ext
  ELSE                          \* "<Diary>_YYYY-M-D"
    r.diary \o <<"_">> \o toString(r.year) \o <<"-">> \o toString(r.monthNum) \o <<"-">>
      \o toString(r.day) \o r.ext

\* diaries that look like the start of a dated name: "1899-1-1-A" has a year
\* that is not accepted, "1989-12-10-A" is a full date
DIARY_OLD == <<"1","8","9","9","-","1","-","1","-","A">>

DIARY_DATED == <<"1","9","8","9","-","1","2","-","1","0","-","A">>

\* diaries that are the names of the directory itself and of its parent
DIARY_DOT == <<".">>

DIARY_UP == <<".", ".">>

DIARY_LA_TERCERA == <<"L","a"," ","T","e","r","c","e","r","a">>

DiaryNames == {DIARY_A, DIARY_LT, DIARY_C13}

SomeYears == {1899, 1900, 1989, CurrentYear, CurrentYear + 1}

SomeDays == {0, 1, 11, 31, 32}

SomeMonthNames == {M_DICIEMBRE, M_DIC_CAP, M_ENERO_UP, M_SEPT}

AllMonthNames ==
  {MONTH_NAMES_LOWER[n] : n \in 1..12} \cup {MonthAbbreviations[n] : n \in 1..12}
    \cup {MONTH_NAMES[n] : n \in 1..12}

SomeMonthNums == {0, 1, 12, 13}

Extensions == {<<>>, EXT_ZIP}

\* "a.Zip", "a.RaR", "a.7Z", "a.zip.txt" and "zip": extensions in other
\* letter cases, an extension that is not an archive's, no extension
ArchMixedZip == <<"a",".","Z","i","p">>

ArchMixedRar == <<"a",".","R","a","R">>

ArchUpper7z == <<"a",".","7","Z">>

ArchZipTxt == <<"a",".","z","i","p",".","t","x","t">>

ArchNoExt == <<"z","i","p">>

\* the paths extractFile is called with
ExtractInputs ==
  {ArchAZip, ArchARar, ArchB7z, ArchDotUpper, ArchATxt, ArchMixedZip, ArchMixedRar,
   ArchUpper7z, ArchZipTxt, ArchNoExt}

\* the directory extractFile is told to extract into
OutputDir == basename(ArchAZip, extname(ArchAZip))

\* the names parseFileName is called with
ParseInputs ==
  {NameParts("dmy", d, day, m, 0, y, conj, e) :
     d \in DiaryNames, day \in SomeDays, m \in SomeMonthNames, y \in SomeYears,
     conj \in {DE, DEL}, e \in Extensions}
  \cup {NameParts("dmy", d, 11, m, 0, 1989, DE, e) :
     d \in {DIARY_A}, m \in AllMonthNames, e \in Extensions \cup {EXT_RAR_UP}}
  \cup {NameParts("my", d, 0, m, 0, y, DE, e) :
     d \in DiaryNames \cup {BLANK}, m \in SomeMonthNames, y \in SomeYears, e \in Extensions}
  \cup {NameParts("ymd", d, day, M_DICIEMBRE, mn, y, DE, e) :
     d \in DiaryNames \cup {BLANK}, day \in SomeDays, mn \in SomeMonthNums,
     y \in {1899, 1989, CurrentYear + 1}, e \in Extensions}
  \cup {NameParts(f, d, day, M_DICIEMBRE, mn, y, DE, EXT_ZIP) :
     f \in {"compact", "dymd"}, d \in {DIARY_A, DIARY_LT}, day \in {1, 32},
     mn \in {1, 12, 13}, y \in {1899, 1989, CurrentYear + 1}}
  \cup {NameParts(f, d, 11, M_DICIEMBRE, mn, 1989, DE, EXT_ZIP) :
     f \in {"dymd", "dmy"}, d \in {DIARY_OLD, DIARY_DATED}, mn \in {12, 13}}
  \cup {NameParts(f, d, 11, M_DICIEMBRE, 12, 1989, DE, EXT_ZIP) :
     f \in {"ymd", "dmy"}, d \in {DIARY_DOT, DIARY_UP, DIARY_LA_TERCERA}}

\* the FileInfo values buildTargetInfo is called with: what parseFileName can return
ResolveInputs ==
  {[kind |-> "info", year |-> y, month |-> m, diary |-> d, hasDay |-> h, day |-> day] :
     y \in {1900, 1989, CurrentYear}, m \in 1..12, d \in {DIARY_A, DIARY_C13},
     h \in BOOLEAN, day \in {1, 11, 31}}
  \cup {[kind |-> "info", year |-> 1989, month |-> 12, diary |-> d, hasDay |-> h, day |-> 11] :
     d \in {DIARY_DOT, DIARY_UP, DIARY_LA_TERCERA}, h \in BOOLEAN}

CallInputs ==
  {[fn |-> "parseFileName", parts |-> r, fileName |-> NameOf(r)] : r \in ParseInputs}
  \cup {[fn |-> "buildTargetInfo",
         fileInfo |-> IF f.hasDay THEN f ELSE [f EXCEPT !.day = 0],
         useDateFolder |-> b] : f \in ResolveInputs, b \in BOOLEAN}
  \cup {[fn |-> "previewFiles"]}
  \cup {[fn |-> "extractFile", filePath |-> f, outputDir |-> OutputDir] : f \in ExtractInputs}

InitCall ==
  /\ arg \in CallInputs
  /\ ret = <<>>
  /\ pc = "call"
  /\ inputExists \in {b \in BOOLEAN : arg.fn # "previewFiles" => b}
  /\ dropboxExists \in {b \in BOOLEAN : arg.fn # "previewFiles" => b}
  /\ archivosExists \in {b \in BOOLEAN : /\ (b => dropboxExists)
                                           /\ (arg.fn # "previewFiles" => b)}
  /\ inputDir \in {d \in PreviewDirectories : IF arg.fn = "previewFiles" THEN d # <<>> => inputExists
                                         ELSE d = <<>>}
  /\ useDateFolder \in {b \in BOOLEAN : arg.fn # "previewFiles" => ~b}
  /\ temp = [k \in TempKeys |->
               IF arg.fn = "extractFile" /\ k = arg.outputDir
               THEN [exists |-> TRUE, entries |-> {}] ELSE NoTemp]
  /\ destDirs = {}
  /\ dest = {}
  /\ fs0 = Snapshot(archivosExists, inputDir, temp, destDirs, dest)
  /\ selectedFiles = <<>>
  /\ deleteOriginals = FALSE
  /\ files = <<>>
  /\ i = 0
  /\ result = NewResult
  /\ events = <<>>
  /\ tempDir = <<>>
  /\ fileInfo = null
  /\ moveList = <<>>
  /\ thrown = <<>>
  /\ maxRetries = DefaultMaxRetries
  /\ attempt = 0
  /\ removeCalls = 0
  /\ waits = <<>>
  /\ rmReturn = "none"
  /\ log = <<>>
  /\ ui = NoUi

\* parseFileName and buildTargetInfo make no file system call
CallUnchanged ==
  UNCHANGED <<fsVars, argVars, batchVars, fileVars, rmVars, log, arg, ui>>

\* parseFileName(fileName)
ParseCall ==
  /\ pc = "call"
  /\ arg.fn = "parseFileName"
  /\ ret' = Append(ret, parseFileName(arg.fileName))
  /\ pc' = "returned"
  /\ CallUnchanged

\* buildTargetInfo(archivosPath, fileInfo, useDateFolder)
ResolveCall ==
  /\ pc = "call"
  /\ arg.fn = "buildTargetInfo"
  /\ ret' = Append(ret, buildTargetInfo(arg.fileInfo, arg.useDateFolder))
  /\ pc' = "returned"
  /\ CallUnchanged

\* variant: the destination root is created when the preview succeeds
PreviewCallEnsuresRoot ==
  /\ pc = "call"
  /\ arg.fn = "previewFiles"
  /\ ret' = Append(ret, previewFiles(inputExists, dropboxExists, inputDir, useDateFolder))
  /\ pc' = IF Len(ret) = 0 THEN "call" ELSE "returned"
  /\ archivosExists' = (archivosExists \/ (inputExists /\ dropboxExists))
  /\ UNCHANGED <<inputExists, dropboxExists, inputDir, temp, destDirs, dest, fs0>>
  /\ UNCHANGED <<argVars, batchVars, fileVars, rmVars, log, arg, ui>>

\* previewFiles(inputPath, useDateFolder), called twice in a row; its file
\* system calls are pathExists, readdir and stat
PreviewCall ==
  /\ pc = "call"
  /\ arg.fn = "previewFiles"
  /\ ret' = Append(ret, previewFiles(inputExists, dropboxExists, inputDir, useDateFolder))
  /\ pc' = IF Len(ret) = 0 THEN "call" ELSE "returned"
  /\ UNCHANGED <<inputExists, dropboxExists, archivosExists, inputDir, temp, destDirs, dest, fs0>>
  /\ UNCHANGED <<argVars, batchVars, fileVars, rmVars, log, arg, ui>>

\* extractFile(filePath, outputDir): the process it spawns, if any, ends with
\* the outcome how after writing the entries named names
ExtractCall ==
  /\ pc = "call"
  /\ arg.fn = "extractFile"
  /\ LET file == arg.filePath
         command == commandOf(file)
     IN
     \/ /\ command # "none"
        /\ \E names \in SUBSET EntryNames :
             temp' = [temp EXCEPT ![arg.outputDir].entries = Extracted2(@, file, names)]
        /\ ret' = Append(ret, [command |-> command, how |-> "ok", error |-> <<>>])
     \/ /\ command # "none"
        /\ \E names \in PartialExtractions :
             temp' = [temp EXCEPT ![arg.outputDir].entries = Extracted2(@, file, names)]
        /\ ret' = Append(ret, [command |-> command, how |-> "exit",
                                error |-> <<ExtractError(file, "exit")>>])
     \/ /\ command # "none"
        /\ \E how \in {"ENOENT", "spawn"} :
             ret' = Append(ret, [command |-> command, how |-> how,
                                 error |-> <<ExtractError(file, how)>>])
        /\ UNCHANGED temp
     \/ /\ command = "none"
        /\ ret' = Append(ret, [command |-> command, how |-> "unsupported",
                                error |-> <<ExtractError(file, "unsupported")>>])
        /\ UNCHANGED temp
  /\ pc' = "returned"
  /\ UNCHANGED <<inputExists, dropboxExists, archivosExists, inputDir, destDirs, dest, fs0>>
  /\ UNCHANGED <<argVars, batchVars, fileVars, rmVars, log, arg, ui>>

NextCall ==
  \/ ParseCall
  \/ ResolveCall
  \/ PreviewCall
  \/ ExtractCall

SpecCall == InitCall /\ [][NextCall]_vars

(***************************************************************************)
(* The batch and the stand-alone calls together                            *)
(***************************************************************************)
InitAll == Init \/ InitCall

NextAll ==
  \/ Next
  \/ NextCall

SpecAll == InitAll /\ [][NextAll]_vars

(***************************************************************************)
(* The renderer: ArchidropApp, archive tab                                 *)
(***************************************************************************)
MaxUserSteps == 4     \* folder selections, clicks on the process button, saves

\* the folders the user can select; settings.lastInputPath is one of them or ""
Folders == {"A", "B"}

\* the constructor has run: loadSettings waits for getSettings
InitUI ==
  /\ ui = [NoUi EXCEPT !.settings = "pending"]
  /\ pc = "ui"
  /\ inputExists = TRUE
  /\ dropboxExists = TRUE
  /\ archivosExists = TRUE
  /\ inputDir = <<>>
  /\ temp = [k \in TempKeys |-> NoTemp]
  /\ destDirs = {}
  /\ dest = {}
  /\ fs0 = Snapshot(archivosExists, inputDir, temp, destDirs, dest)
  /\ selectedFiles = <<>>
  /\ deleteOriginals = FALSE
  /\ useDateFolder = FALSE
  /\ files = <<>>
  /\ i = 0
  /\ result = NewResult
  /\ events = <<>>
  /\ tempDir = <<>>
  /\ fileInfo = null
  /\ moveList = <<>>
  /\ thrown = <<>>
  /\ maxRetries = DefaultMaxRetries
  /\ attempt = 0
  /\ removeCalls = 0
  /\ waits = <<>>
  /\ rmReturn = "none"
  /\ log = <<>>
  /\ arg = <<>>
  /\ ret = <<>>

UIUnchanged ==
  UNCHANGED <<fsVars, argVars, batchVars, fileVars, rmVars, pc, log, arg, ret>>

\* previewZipFiles up to its await: nothing is asked when zipInputPath is
\* empty; run is the startZipProcessing call that awaits it, 0 when none
RequestPreview(u, run) ==
  IF u.zipInputPath = "" THEN u
  ELSE [u EXCEPT !.requests = @ + 1,
                 !.previews = @ \cup {[id |-> u.requests + 1, path |-> u.zipInputPath,
                                        useDateFolder |-> u.zipUseDateFolder, run |-> run]}]

\* the finally block of startZipProcessing
Finally(u, k) ==
  [u EXCEPT !.zipIsProcessing = FALSE, !.runs[k].phase = "over"]

\* startZipProcessing after handleAutoOpenDestinations: await previewZipFiles()
RefreshAfterBatch(u, k) ==
  IF u.zipInputPath = "" THEN Finally(u, k)
  ELSE RequestPreview([u EXCEPT !.runs[k].phase = "preview"], k)

\* loadSettings after getSettings has answered
SettingsLoaded ==
  /\ pc = "ui"
  /\ ui.settings = "pending"
  /\ \/ \E last \in Folders \cup {""}, auto \in BOOLEAN, dated \in BOOLEAN :
          ui' = [ui EXCEPT !.zipInputPath = IF last # "" THEN last ELSE @,
                           !.autoOpen = auto,
                           !.zipUseDateFolder = dated,
                           !.settings = "done"]
     \/ ui' = [ui EXCEPT !.settings = "done"]
  /\ UIUnchanged

\* a folder was chosen: handleZipPathSelection(newPath)
SelectFolder ==
  /\ pc = "ui"
  /\ ui.steps < MaxUserSteps
  /\ \E p \in Folders :
       ui' = RequestPreview([ui EXCEPT !.zipInputPath = p, !.steps = @ + 1], 0)
  /\ UIUnchanged

\* previewFiles has answered: previewZipFiles shows the list on success and
\* an error otherwise; a startZipProcessing call that awaited it ends
PreviewResolves ==
  /\ pc = "ui"
  /\ \E r \in ui.previews, ok \in BOOLEAN :
       LET u == [ui EXCEPT !.previews = @ \ {r},
                           !.shown = IF ok THEN r.path ELSE @]
       IN  ui' = IF r.run = 0 THEN u ELSE Finally(u, r.run)
  /\ UIUnchanged

\* variant: the click handler does not look at zipIsProcessing
ClickProcessNoGuard ==
  /\ pc = "ui"
  /\ ui.steps < MaxUserSteps
  /\ \E checked \in BOOLEAN :
       ui' = IF ui.zipInputPath = "" THEN [ui EXCEPT !.steps = @ + 1]
             ELSE IF ui.shown = "" \/ ~checked THEN [ui EXCEPT !.steps = @ + 1]
             ELSE [ui EXCEPT !.steps = @ + 1,
                             !.zipIsProcessing = TRUE,
                             !.runs = Append(@, [phase |-> "call", path |-> ui.zipInputPath,
                                                 list |-> ui.shown, outcome |-> "none"])]
  /\ UIUnchanged

\* a click on the process button: startZipProcessing up to its await;
\* checked says whether a checkbox of the list is checked, refused counts
\* the clicks that returned because zipIsProcessing was set
ClickProcess ==
  /\ pc = "ui"
  /\ ui.steps < MaxUserSteps
  /\ \E checked \in BOOLEAN :
       ui' = IF ui.zipIsProcessing THEN [ui EXCEPT !.steps = @ + 1, !.refused = @ + 1]
             ELSE IF ui.zipInputPath = "" THEN [ui EXCEPT !.steps = @ + 1]
             ELSE IF ui.shown = "" \/ ~checked THEN [ui EXCEPT !.steps = @ + 1]
             ELSE [ui EXCEPT !.steps = @ + 1,
                             !.zipIsProcessing = TRUE,
                             !.runs = Append(@, [phase |-> "call", path |-> ui.zipInputPath,
                                                 list |-> ui.shown, outcome |-> "none"])]
  /\ UIUnchanged

\* the backend call of startZipProcessing is settled: on success the results
\* are shown and the destination is opened when autoOpen is set and there
\* are destinations, then the preview is refreshed; otherwise an error is
\* shown and the finally block runs
BatchResolves ==
  /\ pc = "ui"
  /\ \E k \in 1..Len(ui.runs), outcome \in {"success", "failure", "reject"},
        destinations \in BOOLEAN :
       /\ ui.runs[k].phase = "call"
       /\ LET u == [ui EXCEPT !.runs[k].outcome = outcome] IN
          ui' = IF outcome # "success" THEN Finally(u, k)
                ELSE IF u.autoOpen /\ destinations THEN [u EXCEPT !.runs[k].phase = "open"]
                ELSE RefreshAfterBatch(u, k)
  /\ UIUnchanged

\* openPath is settled, whatever the outcome
OpenResolves ==
  /\ pc = "ui"
  /\ \E k \in 1..Len(ui.runs) :
       /\ ui.runs[k].phase = "open"
       /\ ui' = RefreshAfterBatch(ui, k)
  /\ UIUnchanged

\* saveSettings up to its await
SaveSettings ==
  /\ pc = "ui"
  /\ ui.steps < MaxUserSteps
  /\ \E auto \in BOOLEAN, dated \in BOOLEAN :
       ui' = [ui EXCEPT !.autoOpen = auto, !.zipUseDateFolder = dated,
                        !.saves = @ + 1, !.steps = @ + 1]
  /\ UIUnchanged

\* electronAPI.saveSettings is settled: the preview is refreshed, or an error
\* is shown
SaveResolves ==
  /\ pc = "ui"
  /\ ui.saves > 0
  /\ \/ ui' = RequestPreview([ui EXCEPT !.saves = @ - 1], 0)
     \/ ui' = [ui EXCEPT !.saves = @ - 1]
  /\ UIUnchanged

NextUI ==
  \/ SettingsLoaded
  \/ SelectFolder
  \/ PreviewResolves
  \/ ClickProcess
  \/ BatchResolves
  \/ OpenResolves
  \/ SaveSettings
  \/ SaveResolves

SpecUI == InitUI /\ [][NextUI]_vars

(***************************************************************************)
(* Observations over a run                                                 *)
(***************************************************************************)
\* the log holds an entry op for the file at index j of files
Has(op, j) ==
  \E n \in 1..Len(log) : log[n].op = op /\ log[n].file = j

Count(op, j) ==
  Cardinality({n \in 1..Len(log) : log[n].op = op /\ log[n].file = j})

\* the strings of result.errors of one kind about the file at index j
ErrorsAbout(kind, j) ==
  {n \in 1..Len(result.errors) :
     result.errors[n].kind = kind /\ result.errors[n].fileName = files[j + 1]}

FileIndexes == 0..(Len(files) - 1)

\* the loop has left the file at index j behind
Finished(j) == i > j \/ pc = "done"

\* the file at index j has an outcome: counted, or reported as failed
Handled(j) == Has("processed", j) \/ Has("error", j)

\* the batch was ended by onProgress throwing
SinkThrew == result.error = <<"onProgress">>

\* the batch was ended by the scan of the input directory failing
ScanThrew == result.error = <<"readdir">>

\* when the batch has returned normally every file after index j was handled
LaterFilesHandled(j) ==
  (pc = "done" /\ ~SinkThrew) => \A k \in FileIndexes : k > j => Handled(k)

\* the entry of kind op in the history of the file at index j
Step(op, j) == CHOOSE e \in {log[n] : n \in 1..Len(log)} : e.op = op /\ e.file = j

FsUnchanged ==
  Snapshot(archivosExists, inputDir, temp, destDirs, dest) = fs0

\* the source archive of the file at index j is no longer in the input directory
Removed(j) == ~includes(NamesOf(inputDir), files[j + 1])

\* the per-file progress events
FileEvents == SelectSeq(events, LAMBDA e : e.currentFile # <<>>)

DirPos(name) ==
  CHOOSE n \in 1..Len(fs0.inputDir) : fs0.inputDir[n].name = name

SelPos(name) ==
  CHOOSE n \in 1..Len(selectedFiles) :
    /\ selectedFiles[n] = name
    /\ \A m \in 1..(n - 1) : selectedFiles[m] # name

EventPos(name) ==
  CHOOSE n \in 1..Len(FileEvents) : FileEvents[n].currentFile = name

HasEvent(name) ==
  \E n \in 1..Len(FileEvents) : FileEvents[n].currentFile = name

(***************************************************************************)
(* C1                                                                      *)
(***************************************************************************)
\* C1: when a step of one file throws (ensureDir of the temporary directory,
\* extraction, the empty check, ensureDir of the target, a move), exactly one
\* "Error procesando <name>: <detail>" with the thrown message is in errors
\* for it, the file is not counted in processed, and the loop goes on: a
\* batch that returns without onProgress having thrown has handled every
\* later file.
C1_StepFailureIsolated ==
  /\ result.processed = Cardinality({j \in FileIndexes : Has("processed", j)})
  /\ \A j \in FileIndexes :
       (Has("throw", j) /\ Finished(j)) =>
         /\ Cardinality(ErrorsAbout("Error procesando", j)) = 1
         /\ \A n \in ErrorsAbout("Error procesando", j) :
              \E m \in 1..Len(log) :
                /\ log[m].op = "throw" /\ log[m].file = j
                /\ log[m].err = result.errors[n].detail
         /\ ErrorsAbout("Advertencia", j) = {}
         /\ ~Has("processed", j)
         /\ i > j
         /\ LaterFilesHandled(j)

\* the first file failed in a step, the second one was processed
C1_Witness ==
  /\ pc = "done"
  /\ result.success
  /\ Len(files) = 2
  /\ Has("throw", 0)
  /\ Has("processed", 1)
  /\ result.processed = 1

(***************************************************************************)
(* C2                                                                      *)
(***************************************************************************)
\* C2 as stated: with the input directory and the destination root present
\* (the scan not failing, onProgress not throwing) the batch returns
\* success = TRUE
C2_Original ==
  (pc = "done" /\ inputExists /\ fs0.archivosExists /\ ~SinkThrew /\ ~ScanThrew)
     => result.success

\* C2, amended: success is FALSE exactly when the input directory is missing,
\* the Dropbox directory is missing, the scan of the input directory fails,
\* no selected name is a file the scan returns, or onProgress throws;
\* otherwise, also when every file fails, success is TRUE and no error is set.
C2_SuccessFalseOnlyWhenFatal ==
  pc = "done" =>
    /\ ~result.success <=>
         (~inputExists \/ ~dropboxExists \/ files = <<>> \/ SinkThrew)
    /\ result.success <=> (result.error = <<>>)
    /\ (files = <<>> /\ inputExists /\ dropboxExists /\ ~ScanThrew) =>
         result.error = <<"No se encontraron archivos seleccionados para procesar">>

\* both directories exist, names were selected, none of them is a file of the scan
C2_Witness ==
  /\ pc = "done"
  /\ inputExists
  /\ fs0.archivosExists
  /\ selectedFiles # <<>>
  /\ files = <<>>
  /\ ~ScanThrew
  /\ ~result.success
  /\ result.processed = 0

(***************************************************************************)
(* C3                                                                      *)
(***************************************************************************)
\* C3 as stated: when the Archivos folder does not exist the batch fails with
\* error set and processed = 0, without a progress event and without touching
\* the file system
C3_Original ==
  ~fs0.archivosExists =>
    /\ events = <<>>
    /\ FsUnchanged
    /\ result.processed = 0
    /\ pc = "done" => (~result.success /\ result.error # <<>>)

\* C3, amended: when the Dropbox directory, under which Archivos lies, does
\* not exist the batch fails with error set and processed = 0, without a
\* progress event and without touching the file system.
C3_DropboxMissing ==
  ~dropboxExists =>
    /\ events = <<>>
    /\ FsUnchanged
    /\ result.processed = 0
    /\ ~result.success
    /\ pc = "done" => result.error # <<>>

\* the batch has returned for an existing input directory and no Dropbox directory
C3_Witness ==
  /\ pc = "done"
  /\ inputExists
  /\ ~dropboxExists
  /\ selectedFiles # <<>>
  /\ result.error = <<"La carpeta de Dropbox no existe">>

(***************************************************************************)
(* C4                                                                      *)
(***************************************************************************)
\* C4: when the input directory does not exist the batch returns success =
\* FALSE with a non-empty error, processed = 0 and no errors; onProgress is
\* never called and the file system is not changed.
C4_InputMissing ==
  ~inputExists =>
    /\ events = <<>>
    /\ FsUnchanged
    /\ result.processed = 0
    /\ result.errors = <<>>
    /\ ~result.success
    /\ pc \in {"checkInput", "done"}
    /\ pc = "done" => (result.error # <<>> /\ result.error[1] # "")

\* the batch has returned for a missing input directory
C4_Witness ==
  /\ pc = "done"
  /\ ~inputExists
  /\ selectedFiles # <<>>
  /\ result.error = <<"La carpeta de entrada no existe">>

C6_Original ==
  \A a, b \in 1..Len(selectedFiles) :
    (/\ a < b
     /\ selectedFiles[a] # selectedFiles[b]
     /\ HasEvent(selectedFiles[a])
     /\ HasEvent(selectedFiles[b]))
    => EventPos(selectedFiles[a]) < EventPos(selectedFiles[b])

\* C6, amended: the files are processed in the order in which the scan of the
\* input directory lists them; selectedFiles only filters that list. The
\* per-file progress events and the log entries follow the directory order.
C6_DirectoryOrder ==
  /\ \A a, b \in 1..Len(FileEvents) :
       a < b => DirPos(FileEvents[a].currentFile) < DirPos(FileEvents[b].currentFile)
  /\ \A a, b \in 1..Len(files) :
       a < b => DirPos(files[a]) < DirPos(files[b])
  /\ \A n, m \in 1..Len(log) : n < m => log[n].file <= log[m].file
  /\ \A n \in 1..Len(FileEvents) : FileEvents[n].currentFile = files[n]

\* two files were announced in directory order though selected in the other order
C6_Witness ==
  /\ Len(FileEvents) = 2
  /\ SelPos(FileEvents[1].currentFile) > SelPos(FileEvents[2].currentFile)
  /\ Handled(0)

(***************************************************************************)
(* C7                                                                      *)
(***************************************************************************)
\* C7: with deleteOriginals set, when processFile succeeded and fs.remove of
\* the source archive throws, the file is counted in processed, exactly one
\* "Advertencia" string and no "Error procesando" string is in errors for
\* it, and the loop goes on with the next file.
C7_DeleteFailureIsWarning ==
  /\ result.processed = Cardinality({j \in FileIndexes : Has("processed", j)})
  /\ \A j \in FileIndexes :
       Has("warning", j) =>
         /\ deleteOriginals
         /\ Has("processed", j)
         /\ ~Has("throw", j)
         /\ Cardinality(ErrorsAbout("Advertencia", j)) = 1
         /\ ErrorsAbout("Error procesando", j) = {}
         /\ ~Removed(j)
         /\ i > j
         /\ LaterFilesHandled(j)

\* the source of the first file could not be removed, the second file was handled
C7_Witness ==
  /\ pc = "done"
  /\ result.success
  /\ Len(files) = 2
  /\ Has("warning", 0)
  /\ Handled(1)
  /\ result.processed >= 1

(***************************************************************************)
(* C8                                                                      *)
(***************************************************************************)
\* C8: for every file whose temporary directory step was reached,
\* safeRemoveDir was called once on the temporary directory of that file
\* before the loop reaches the next file, after a success as after a failure.
C8_CleanupAlwaysAttempted ==
  /\ \A n, m \in 1..Len(log) : n < m => log[n].file <= log[m].file
  /\ \A j \in FileIndexes :
       (Has("start", j) /\ Finished(j)) =>
         /\ Count("safeRemoveDir", j) = 1
         /\ \A n \in 1..Len(log) :
              (log[n].op = "safeRemoveDir" /\ log[n].file = j) =>
                 log[n].dir = basename(files[j + 1], extname(files[j + 1]))
         /\ Has("throw", j) \/ Has("processed", j)

\* one file failed after its temporary directory step, one succeeded
C8_Witness ==
  /\ pc = "done"
  /\ Len(files) = 2
  /\ \E j, k \in FileIndexes :
       /\ Has("start", j) /\ Has("throw", j) /\ Has("safeRemoveDir", j)
       /\ Has("start", k) /\ Has("processed", k) /\ Has("safeRemoveDir", k)

(***************************************************************************)
(* C9                                                                      *)
(***************************************************************************)
\* C9: when every pass of safeRemoveDir fails after the extraction and the
\* moves succeeded, the file is counted in processed, errors holds no string
\* about the cleanup (nothing but a warning about the source archive), and
\* a batch that returns without onProgress having thrown has success = TRUE
\* and has handled the following files.
C9_CleanupFailureIgnored ==
  \A j \in FileIndexes :
    (Has("cleanupFailed", j) /\ ~Has("throw", j) /\ Finished(j)) =>
      /\ Has("processed", j)
      /\ ErrorsAbout("Error procesando", j) = {}
      /\ Cardinality(ErrorsAbout("Advertencia", j)) = Count("warning", j)
      /\ i > j
      /\ (pc = "done" /\ ~SinkThrew) => result.success
      /\ LaterFilesHandled(j)

\* the temporary directory of the first file could not be removed, the
\* second file was processed
C9_Witness ==
  /\ pc = "done"
  /\ result.success
  /\ result.errors = <<>>
  /\ Len(files) = 2
  /\ Has("cleanupFailed", 0) /\ ~Has("throw", 0)
  /\ Has("processed", 1)
  /\ result.processed = 2

(***************************************************************************)
(* C10                                                                     *)
(***************************************************************************)
\* C10: safeRemoveDir(dirPath, maxRetries) never calls fs.remove more than
\* maxRetries times, and when dirPath exists and every fs.remove throws it
\* returns to its caller after exactly maxRetries calls.
C10_ExactlyMaxRetries ==
  /\ removeCalls <= maxRetries
  /\ (pc # "remove" /\ fs0.temp[tempDir].exists /\ temp[tempDir].exists) =>
        /\ pc = "removed"
        /\ removeCalls = maxRetries
        /\ Len(waits) = Max(maxRetries - 1, 0)

\* the call has returned after three or more failed passes
C10_Witness ==
  /\ pc = "removed"
  /\ temp[tempDir].exists
  /\ maxRetries >= 3
  /\ removeCalls = maxRetries

(***************************************************************************)
(* C11                                                                     *)
(***************************************************************************)
\* the extraction of the file at index j ended with exit code 0 and the
\* temporary directory holds no entry
ExtractedNothing(j) ==
  \E n \in 1..Len(log) :
    log[n].op = "extract" /\ log[n].file = j /\ log[n].n = 0

\* C11: when the extraction of an archive succeeds and the temporary
\* directory is empty, no target directory is created and nothing is moved
\* for the file, it is not counted, its source archive stays, exactly one
\* error string is recorded for it, and the loop goes on with the next file.
C11_EmptyExtractionFails ==
  \A j \in FileIndexes :
    ExtractedNothing(j) =>
      /\ ~Has("ensureTarget", j)
      /\ ~Has("move", j)
      /\ ~Has("processed", j)
      /\ ~Removed(j)
      /\ ErrorsAbout("Advertencia", j) = {}
      /\ Finished(j) =>
           /\ Cardinality(ErrorsAbout("Error procesando", j)) = 1
           /\ \A n \in ErrorsAbout("Error procesando", j) :
                result.errors[n].detail = "No se extrajeron archivos del archivo comprimido"
           /\ i > j
           /\ LaterFilesHandled(j)

\* the first archive gave nothing, the second one was processed and removed
C11_Witness ==
  /\ pc = "done"
  /\ deleteOriginals
  /\ Len(files) = 2
  /\ ExtractedNothing(0)
  /\ Len(result.errors) = 1
  /\ Has("processed", 1)
  /\ Removed(1)

(***************************************************************************)
(* C12                                                                     *)
(***************************************************************************)
\* fractions <<numerator, denominator>> with positive denominators
PctEq(p, q) == p[1] * q[2] = q[1] * p[2]

PctLe(p, q) == p[1] * q[2] <= q[1] * p[2]

\* C12: a batch over n >= 1 files emits n + 2 progress events: the first
\* with current = 0 and 0 percent, then for the file at index k, before any
\* step of that file, one with current = k and k / n * 100 percent, the last
\* with current = n and 100 percent. Fewer are emitted only when onProgress
\* throws.
C12_ProgressEvents ==
  /\ files = <<>> => events = <<>>
  /\ files # <<>> =>
       LET n == Len(files) IN
       /\ Len(events) >= 1
       /\ Len(events) <= n + 2
       /\ \A k \in 1..Len(events) :
            /\ events[k].total = n
            /\ k = 1 =>
                 /\ events[k].current = 0
                 /\ events[k].currentFile = <<>>
                 /\ PctEq(events[k].percentage, <<0, 1>>)
            /\ (k >= 2 /\ k <= n + 1) =>
                 /\ events[k].current = k - 2
                 /\ events[k].currentFile = files[k - 1]
                 /\ PctEq(events[k].percentage, <<(k - 2) * 100, n>>)
            /\ k = n + 2 =>
                 /\ events[k].current = n
                 /\ events[k].currentFile = <<>>
                 /\ PctEq(events[k].percentage, <<100, 1>>)
       /\ \A m \in 1..Len(log) : Len(events) >= log[m].file + 2
       /\ Len(events) = n + 2 => pc = "done"
       /\ (pc = "done" /\ ~SinkThrew) => Len(events) = n + 2

\* a batch of two files has returned after four events
C12_Witness ==
  /\ pc = "done"
  /\ result.success
  /\ Len(files) = 2
  /\ Len(events) = 4
  /\ events[3].current = 1
  /\ PctEq(events[3].percentage, <<50, 1>>)

(***************************************************************************)
(* C13                                                                     *)
(***************************************************************************)
\* C13: in the sequence of progress events of a batch current and percentage
\* never decrease, and every event has 0 <= current <= total.
C13_ProgressMonotonic ==
  /\ \A k \in 1..Len(events) :
       /\ 0 <= events[k].current
       /\ events[k].current <= events[k].total
       /\ events[k].percentage[2] > 0
  /\ \A a, b \in 1..Len(events) :
       a < b =>
         /\ events[a].current <= events[b].current
         /\ PctLe(events[a].percentage, events[b].percentage)

\* four events with current 0, 0, 1, 2
C13_Witness ==
  /\ Len(events) = 4
  /\ events[2].current < events[3].current
  /\ events[3].current < events[4].current
  /\ ~PctLe(events[4].percentage, events[3].percentage)

(***************************************************************************)
(* C14                                                                     *)
(***************************************************************************)
\* the awaits of processFiles and the return
BatchPcs ==
  {"checkInput", "checkDropbox", "scan", "loop", "ensureTemp", "extract", "readTemp",
   "ensureTarget", "move", "remove", "fileOk", "deleteOriginal", "fileErr", "done"}

\* C14: whatever fails (a file system call, the extraction, onProgress),
\* processFiles goes on until it returns its result and never leaves by an
\* exception; the result is final once returned, and error is set exactly
\* when success is FALSE.
C14_AlwaysOneResult ==
  /\ pc \in BatchPcs
  /\ pc # "done" => ENABLED Next
  /\ pc # "done" => (~result.success /\ result.error = <<>>)
  /\ pc = "done" => (~ENABLED Next)
  /\ pc = "done" => (result.error # <<>> <=> ~result.success)

\* onProgress threw after the first file had been processed: the result is
\* returned with processed = 1 and the error
C14_Witness ==
  /\ pc = "done"
  /\ SinkThrew
  /\ ~result.success
  /\ result.processed = 1
  /\ Has("processed", 0)

(***************************************************************************)
(* C15                                                                     *)
(***************************************************************************)
\* a stand-alone call of parseFileName has returned
ParseReturned == pc = "returned" /\ arg.fn = "parseFileName"

\* C15: every FileInfo parseFileName returns has 1900 <= year <= current
\* year, 1 <= month <= 12, a non-empty diary without leading or trailing
\* white space, and a day, when it has one, in 1..31.
C15_ParsedIsValid ==
  (ParseReturned /\ ret[1] # null) =>
    /\ ret[1].year >= 1900 /\ ret[1].year <= CurrentYear
    /\ ret[1].month >= 1 /\ ret[1].month <= 12
    /\ Len(ret[1].diary) > 0
    /\ ~IsSpace(ret[1].diary[1])
    /\ ~IsSpace(ret[1].diary[Len(ret[1].diary)])
    /\ ret[1].hasDay => (ret[1].day >= 1 /\ ret[1].day <= 31)

\* a name in the form YYYY-M-D-<Diary> was parsed into a FileInfo with a day
C15_Witness ==
  /\ ParseReturned
  /\ arg.parts.form = "ymd"
  /\ ret[1] # null
  /\ ret[1].hasDay
  /\ ret[1].day = 31
  /\ ret[1].year = 1989

(***************************************************************************)
(* C16                                                                     *)
(***************************************************************************)
\* the name is "<Diary> - <day> de <Month> de <YYYY>", with or without an
\* extension, and its day, month name and year are valid
ValidDayMonthYearName ==
  /\ arg.parts.form = "dmy"
  /\ arg.parts.conj = DE
  /\ arg.parts.day >= 1 /\ arg.parts.day <= 31
  /\ spanishMonths(toLowerCase(arg.parts.monthName)) > 0
  /\ arg.parts.year >= 1900 /\ arg.parts.year <= CurrentYear

\* C16 as stated: parseFileName returns the year, month number, day and
\* diary every valid name "<Diary> - <day> de <Month> de <YYYY>" was written
\* from, with or without an extension
C16_Original ==
  (ParseReturned /\ ValidDayMonthYearName) =>
    ret[1] = [kind |-> "info", year |-> arg.parts.year,
              month |-> spanishMonths(toLowerCase(arg.parts.monthName)),
              diary |-> arg.parts.diary, hasDay |-> TRUE, day |-> arg.parts.day]

(***************************************************************************)
(* C17                                                                     *)
(***************************************************************************)
\* C17 as stated: a selected file whose name does not parse is left out of
\* the files to process and nothing else: no entry of errors reports a name
\* that could not be parsed, and a selection made only of files of the input
\* directory does not end in the fatal error that nothing is left to process
C17_Original ==
  /\ \A n \in 1..Len(result.errors) :
       result.errors[n].detail # "No se pudo parsear el nombre del archivo"
  /\ (/\ pc = "done"
      /\ selectedFiles # <<>>
      /\ \A n \in 1..Len(selectedFiles) :
           \E m \in 1..Len(fs0.inputDir) : fs0.inputDir[m].name = selectedFiles[n])
       => result.error # <<"No se encontraron archivos seleccionados para procesar">>

(***************************************************************************)
(* C18                                                                     *)
(***************************************************************************)
\* a stand-alone call of buildTargetInfo has returned
ResolveReturned == pc = "returned" /\ arg.fn = "buildTargetInfo"

SLASH == <<" ","/"," ">>

\* "MM - <Month>" written from the month number
ExpectedMonthFolder(m) ==
  (IF m < 10 THEN <<"0">> ELSE <<>>) \o toString(m) \o SEP3 \o MONTH_NAMES[m]

\* the base path destinationRoot / year / month folder / diary, below the root
ExpectedBase(f) ==
  pathJoin(<<toString(f.year), ExpectedMonthFolder(f.month), f.diary>>)

ExpectedBaseLabel(f) ==
  toString(f.year) \o SLASH \o ExpectedMonthFolder(f.month) \o SLASH \o f.diary

\* the number of "/" in a label
Slashes(label) ==
  Cardinality({n \in 1..Len(label) : label[n] = "/"})

\* C18: with useDateFolder = FALSE buildTargetInfo returns, for a FileInfo
\* with or without a day, the label "<year> / <month folder> / <diary>" of
\* three segments, no dateFolderName, and the base path as fullPath.
C18_NoDateFolder ==
  (ResolveReturned /\ ~arg.useDateFolder) =>
    /\ ret[1].dateFolderName = <<>>
    /\ ret[1].fullPath = ExpectedBase(arg.fileInfo)
    /\ ret[1].label = ExpectedBaseLabel(arg.fileInfo)
    /\ Slashes(ret[1].label) = 2

\* a FileInfo with a day was resolved without a date folder
C18_Witness ==
  /\ ResolveReturned
  /\ ~arg.useDateFolder
  /\ arg.fileInfo.hasDay
  /\ arg.fileInfo.day = 11
  /\ Len(ret[1].fullPath) = 3

(***************************************************************************)
(* C19                                                                     *)
(***************************************************************************)
\* "<day> de <lowercase month> de <year>", or "<Capitalized month> de <year>"
ExpectedDateFolder(f) ==
  IF f.hasDay
  THEN toString(f.day) \o DE \o MONTH_NAMES_LOWER[f.month] \o DE \o toString(f.year)
  ELSE MONTH_NAMES[f.month] \o DE \o toString(f.year)

EX_11_DIC_1989 == <<"1","1"," ","d","e"," ","d","i","c","i","e","m","b","r","e"," ","d","e"," ","1","9","8","9">>

EX_DIC_1989 == <<"D","i","c","i","e","m","b","r","e"," ","d","e"," ","1","9","8","9">>

\* C19: with useDateFolder = TRUE buildTargetInfo appends exactly one date
\* folder for every valid FileInfo: "<day> de <lowercase month> de <year>"
\* when it has a day, "<Capitalized month> de <year>" when it has none; day
\* 11, month 12, year 1989 gives "11 de diciembre de 1989", month 12, year
\* 1989 without a day gives "Diciembre de 1989".
C19_DateFolder ==
  (ResolveReturned /\ arg.useDateFolder) =>
    LET f == arg.fileInfo IN
    /\ ret[1].dateFolderName = <<ExpectedDateFolder(f)>>
    /\ ret[1].fullPath = ExpectedBase(f) \o <<ExpectedDateFolder(f)>>
    /\ ret[1].label = ExpectedBaseLabel(f) \o SLASH \o ExpectedDateFolder(f)
    /\ Slashes(ret[1].label) = 3
    /\ (f.hasDay /\ f.day = 11 /\ f.month = 12 /\ f.year = 1989) =>
         ret[1].dateFolderName = <<EX_11_DIC_1989>>
    /\ (~f.hasDay /\ f.month = 12 /\ f.year = 1989) =>
         ret[1].dateFolderName = <<EX_DIC_1989>>

\* the example without a day was resolved with a date folder
C19_Witness ==
  /\ ResolveReturned
  /\ arg.useDateFolder
  /\ ~arg.fileInfo.hasDay
  /\ arg.fileInfo.month = 12
  /\ arg.fileInfo.year = 1989
  /\ Len(ret[1].fullPath) = 4
  /\ ret[1].fullPath[4] = EX_DIC_1989

(***************************************************************************)
(* C20                                                                     *)
(***************************************************************************)
\* previewFiles has returned twice
PreviewReturned == pc = "returned" /\ arg.fn = "previewFiles"

PreviewCalled == arg # <<>> /\ arg.fn = "previewFiles" /\ Len(ret) >= 1

\* C21: after any call of previewFiles, one that succeeds or one that fails
\* because a directory is missing, the input directory, the destination root
\* and everything in them are as before the call: nothing is created, moved,
\* extracted or deleted.
C21_PreviewLeavesFsUnchanged ==
  PreviewCalled =>
    /\ FsUnchanged
    /\ archivosExists = fs0.archivosExists
    /\ inputDir = fs0.inputDir
    /\ destDirs = {} /\ dest = {}
    /\ \A k \in TempKeys : temp[k] = NoTemp

\* a preview that lists a file has returned while the destination root does
\* not exist
C21_Witness ==
  /\ PreviewCalled
  /\ ret[1].success
  /\ ret[1].items # <<>>
  /\ ~archivosExists
  /\ inputDir # <<>>

(***************************************************************************)
(* C22                                                                     *)
(***************************************************************************)
\* previewFiles has returned a successful result
PreviewSucceeded == PreviewCalled /\ ret[1].success

\* the entry is a regular file with the extension .zip, .rar or .7z in any
\* case whose name parses
IsPreviewable(entry) ==
  /\ entry.isFile
  /\ \E ext \in supportedExtensions :
       /\ Len(entry.name) >= Len(ext)
       /\ toLowerCase(SubSeq(entry.name, Len(entry.name) - Len(ext) + 1, Len(entry.name))) = ext
  /\ parseFileName(entry.name) # null

\* C22: a successful previewFiles returns one item for each regular file of
\* the input directory that has a supported archive extension in any case and
\* a name that parses, and no other item; every item has willProcess = TRUE,
\* processableFiles is the number of items, totalFiles is the number of
\* regular files directly in the input directory, and processableFiles is at
\* most totalFiles.
C22_PreviewItems ==
  PreviewSucceeded =>
    LET r == ret[1]
        expected == NamesOf(SelectSeq(inputDir, IsPreviewable))
    IN  /\ Len(r.items) = Len(expected)
        /\ \A n \in 1..Len(r.items) :
             /\ r.items[n].fileName = expected[n]
             /\ r.items[n].willProcess
        /\ r.processableFiles = Len(r.items)
        /\ r.totalFiles = Cardinality({n \in 1..Len(inputDir) : inputDir[n].isFile})
        /\ r.processableFiles <= r.totalFiles

\* a file with an upper-case archive extension is listed and a file with
\* another extension, whose name parses, is counted and left out
C22_Witness ==
  /\ PreviewSucceeded
  /\ Len(inputDir) = 2
  /\ inputDir[1].name = ArchDotUpper
  /\ inputDir[2].name = ArchATxt
  /\ ret[1].totalFiles = 2
  /\ ret[1].processableFiles = 1
  /\ ret[1].items[1].fileName = ArchDotUpper

(***************************************************************************)
(* C23                                                                     *)
(***************************************************************************)
\* the names of the regular files directly inside a directory
TopLevelFiles(dir) == {dir[n].name : n \in {m \in 1..Len(dir) : dir[m].isFile}}

\* the names of the files inside the subdirectories of a directory
NestedFiles(dir) ==
  UNION {{dir[n].inside[k] : k \in 1..Len(dir[n].inside)} : n \in 1..Len(dir)}

\* C23: only the entries directly inside the input directory are considered.
\* A file that lies in a subdirectory is no preview item and is not counted in
\* totalFiles; processFiles never takes it into its list, never extracts,
\* moves or deletes it, also when its name is selected, and the subdirectory
\* stays as it was.
C23_TopLevelOnly ==
  /\ PreviewSucceeded =>
       /\ \A n \in 1..Len(ret[1].items) :
            ret[1].items[n].fileName \in TopLevelFiles(inputDir)
       /\ ret[1].totalFiles = Cardinality({n \in 1..Len(inputDir) : inputDir[n].isFile})
  /\ arg = <<>> =>
       /\ \A n \in 1..Len(files) : files[n] \in TopLevelFiles(fs0.inputDir)
       /\ \A k \in TempKeys : \A e \in temp[k].entries : e.from \in TopLevelFiles(fs0.inputDir)
       /\ \A e \in dest : e.from \in TopLevelFiles(fs0.inputDir)
       /\ \A n \in 1..Len(events) :
            events[n].currentFile # <<>> => events[n].currentFile \in TopLevelFiles(fs0.inputDir)
       /\ \A n \in 1..Len(fs0.inputDir) :
            ~fs0.inputDir[n].isFile => includes(inputDir, fs0.inputDir[n])

\* a batch has ended in which a top-level archive was processed and deleted
\* and the selected name of an archive that lies only in the subdirectory
\* was passed over
C23_Witness ==
  /\ arg = <<>>
  /\ pc = "done"
  /\ result.success
  /\ result.processed = 1
  /\ deleteOriginals
  /\ Len(fs0.inputDir) = 2
  /\ fs0.inputDir[2].name = SubDir
  /\ ArchB7z \in NestedFiles(fs0.inputDir) \ TopLevelFiles(fs0.inputDir)
  /\ includes(selectedFiles, ArchB7z)
  /\ Len(inputDir) = 1
  /\ inputDir[1].inside = <<ArchB7z>>

(***************************************************************************)
(* C24                                                                     *)
(***************************************************************************)
\* every step the file at index k can take has been taken: it has an outcome,
\* its temporary directory was handed to safeRemoveDir if it was created, and
\* the removal of its source was tried if it was asked for
AllStepsOver(k) ==
  /\ Handled(k)
  /\ Has("start", k) => Has("safeRemoveDir", k)
  /\ (Has("processed", k) /\ deleteOriginals) =>
       (Has("deleteOriginal", k) \/ Has("warning", k))

\* C24: within a batch one file is extracted and organized at a time: the
\* steps of two files never interleave, and the progress event, the temporary
\* directory and the extraction of file k+1 come only after the extraction,
\* the moves, the cleanup and the optional removal of the source of file k
\* are over.
C24_OneFileAtATime ==
  /\ \A m \in 1..Len(log) : \A n \in 1..Len(log) :
       m < n => log[m].file <= log[n].file
  /\ \A n \in 1..Len(log) : log[n].file <= i
  /\ \A k \in FileIndexes : k < i => AllStepsOver(k)
  /\ Len(FileEvents) <= i + 1
  /\ \A n \in 1..Len(FileEvents) :
       /\ FileEvents[n].currentFile = files[n]
       /\ \A k \in FileIndexes : k < n - 1 => k < i
  /\ pc \in {"ensureTemp", "extract", "readTemp", "ensureTarget", "move", "remove",
             "fileOk", "fileErr", "deleteOriginal"} =>
       /\ i < Len(files)
       /\ Len(FileEvents) = i + 1

\* the second file is being extracted after the first one was extracted,
\* moved, cleaned up and its source removed
C24_Witness ==
  /\ pc = "extract"
  /\ i = 1
  /\ deleteOriginals
  /\ Has("move", 0)
  /\ Has("processed", 0)
  /\ Has("deleteOriginal", 0)
  /\ Has("ensureTemp", 1)

(***************************************************************************)
(* C25                                                                     *)
(***************************************************************************)
\* C25 as stated: when a file starts extraction its temporary directory holds
\* no entry, and when its extraction is over the directory holds only entries
\* extracted from that file: the entries of two files are never in one
\* temporary directory
C25_Original ==
  /\ pc = "extract" => temp[tempDir].entries = {}
  /\ pc \in {"readTemp", "ensureTarget", "move"} =>
       \A e \in temp[tempDir].entries : e.from = files[i + 1]

(***************************************************************************)
(* C26                                                                     *)
(***************************************************************************)
\* the patterns, by their 0-based index, that match the name and whose
\* extracted values pass validation
MatchedAndValid(s) ==
  {k \in 0..(Len(patterns) - 1) :
     \E g \in match(s, patterns[k + 1]) : Validated(Extracted(g, k))}

\* the patterns that match the name, validated or not
Matched(s) ==
  {k \in 0..(Len(patterns) - 1) : match(s, patterns[k + 1]) # {}}

\* C26: parseFileName tries the patterns in the fixed order day-level,
\* month-level, YYYY-MM-DD-Diary, YYYYMMDD-Diary, Diary-YYYY-MM-DD. A pattern
\* that matches and fails validation does not end the search: the result is
\* that of the first pattern that both matches and validates, and null when
\* there is none.
C26_FirstMatchThatValidates ==
  ParseReturned =>
    LET s == nameWithoutExt(arg.fileName)
        c == MatchedAndValid(s)
    IN  IF c = {} THEN ret[1] = null
        ELSE LET k == CHOOSE k \in c : \A j \in c : k <= j
             IN  \E g \in match(s, patterns[k + 1]) :
                   /\ ret[1] = FileInfo(Extracted(g, k))
                   /\ ret[1].hasDay = (k \notin {1, 2})

\* "1899-1-1-A_1989-12-11.zip": the YYYY-MM-DD-Diary pattern matches with the
\* year 1899 and fails validation, the Diary-YYYY-MM-DD pattern gives the result
C26_Witness ==
  /\ ParseReturned
  /\ arg.parts.form = "dymd"
  /\ arg.parts.diary = DIARY_OLD
  /\ 3 \in Matched(nameWithoutExt(arg.fileName))
  /\ 3 \notin MatchedAndValid(nameWithoutExt(arg.fileName))
  /\ MatchedAndValid(nameWithoutExt(arg.fileName)) = {5}
  /\ ret[1] # null
  /\ ret[1].year = 1989
  /\ ret[1].diary = DIARY_OLD

(***************************************************************************)
(* C27                                                                     *)
(***************************************************************************)
\* the place of a step in the order of the claim; 0 for an entry of the
\* history that is no step of that order
StepRank(op) ==
  IF op = "ensureTemp" THEN 1
  ELSE IF op = "extract" THEN 2
  ELSE IF op = "check" THEN 3
  ELSE IF op = "ensureTarget" THEN 4
  ELSE IF op = "move" THEN 5
  ELSE IF op = "safeRemoveDir" THEN 6
  ELSE IF op = "processed" THEN 7
  ELSE IF op \in {"deleteOriginal", "warning"} THEN 8
  ELSE 0

\* whenever a file took the step op it had taken the step before
Preceded(op, before) ==
  \A n \in 1..Len(log) :
    log[n].op = op =>
      \E m \in 1..(n - 1) : log[m].file = log[n].file /\ log[m].op = before

\* C27: for one file the steps come in the order temp-dir creation,
\* extraction, non-empty check, target-directory creation, the moves, temp-dir
\* cleanup, increment of processed, optional removal of the source; no step
\* is taken without the one before it, processed is incremented only after
\* every listed entry was moved, and no target directory exists or holds
\* anything before an extraction was completed and found non-empty.
C27_StepOrder ==
  /\ \A m \in 1..Len(log) : \A n \in (m + 1)..Len(log) :
       (log[m].file = log[n].file /\ StepRank(log[m].op) > 0 /\ StepRank(log[n].op) > 0) =>
         /\ StepRank(log[m].op) <= StepRank(log[n].op)
         /\ (StepRank(log[m].op) = StepRank(log[n].op)) => log[m].op = "move"
  /\ Preceded("extract", "ensureTemp")
  /\ Preceded("check", "extract")
  /\ Preceded("ensureTarget", "check")
  /\ Preceded("move", "ensureTarget")
  /\ Preceded("processed", "safeRemoveDir")
  /\ Preceded("processed", "move")
  /\ Preceded("deleteOriginal", "processed")
  /\ Preceded("warning", "processed")
  /\ \A n \in 1..Len(log) :
       /\ log[n].op = "check" => log[n].n > 0
       /\ log[n].op = "processed" =>
            \E m \in 1..(n - 1) :
              /\ log[m].file = log[n].file
              /\ log[m].op = "check"
              /\ Count("move", log[n].file) = log[m].n
  /\ Cardinality(destDirs) <= Cardinality({j \in FileIndexes : Has("ensureTarget", j)})
  /\ (dest # {}) => \E j \in FileIndexes : Has("move", j)
  /\ pc \in {"ensureTemp", "extract", "readTemp"} => ~Has("ensureTarget", i)

\* a file with two entries has gone through every step, the removal of its
\* source included
C27_Witness ==
  /\ Has("deleteOriginal", 0)
  /\ Count("move", 0) = 2
  /\ Has("processed", 0)
  /\ Has("safeRemoveDir", 0)
  /\ Has("ensureTarget", 0)
  /\ Has("check", 0)
  /\ Has("extract", 0)
  /\ Has("ensureTemp", 0)

(***************************************************************************)
(* C28                                                                     *)
(***************************************************************************)
\* the entry named name of the directory dir of the destination came from
\* the archive file
InTarget(dir, name, file) ==
  /\ [dir |-> dir, name |-> name, from |-> file] \in dest
  /\ \A x \in dest : (x.dir = dir /\ x.name = name) => x.from = file

\* no file after the one at index j has moved anything yet
NothingMovedSince(j) ==
  \A k \in FileIndexes : k > j => ~Has("move", k)

\* C28: after a file is processed successfully every top-level entry its
\* extraction produced, file or directory, is in the resolved target directory
\* under the same name, and it is the extracted one: an entry of that name
\* that was there before has been replaced.
C28_EntriesInTarget ==
  \A j \in FileIndexes :
    Has("processed", j) =>
      /\ dest # {} /\ Step("ensureTarget", j).dir \in destDirs
      /\ \A name \in Step("extract", j).names :
           /\ \E x \in dest : x.dir = Step("ensureTarget", j).dir /\ x.name = name
           /\ NothingMovedSince(j) =>
                InTarget(Step("ensureTarget", j).dir, name, files[j + 1])

\* the second archive has been processed into the directory of the first and
\* has replaced the entry of the same name the first one had put there
C28_Witness ==
  /\ pc = "fileOk"
  /\ i = 1
  /\ Has("processed", 0)
  /\ Step("ensureTarget", 0).dir = Step("ensureTarget", 1).dir
  /\ "f1" \in Step("extract", 0).names
  /\ Step("extract", 1).names = {"f1", "d1"}
  /\ InTarget(Step("ensureTarget", 1).dir, "f1", files[2])
  /\ InTarget(Step("ensureTarget", 1).dir, "d1", files[2])
  /\ files[1] # files[2]

(***************************************************************************)
(* C29                                                                     *)
(***************************************************************************)
\* the base name of the archive at index j of files
BaseName(j) == basename(files[j + 1], extname(files[j + 1]))

\* the target directory as a function of the base name and the flag alone
TargetOf(base, withDateFolder) ==
  CHOOSE d \in {buildTargetInfo(info, withDateFolder).fullPath :
                  info \in {parseFileName(base)} \ {null}} : TRUE

\* C29: the target directory of a file depends only on the base name of the
\* archive, the useDateFolder flag and the destination root: when it is
\* created it is the directory that base name and flag determine, it is the
\* same for two archives with the same base name whatever entries they
\* contain, and every entry of an archive is moved into it.
C29_TargetFromNameOnly ==
  /\ (log # <<>> /\ log[Len(log)].op = "ensureTarget") =>
       log[Len(log)].dir = TargetOf(BaseName(log[Len(log)].file), useDateFolder)
  /\ \A j \in FileIndexes : \A k \in FileIndexes :
       (Has("ensureTarget", j) /\ Has("ensureTarget", k) /\ BaseName(j) = BaseName(k)) =>
         Step("ensureTarget", j).dir = Step("ensureTarget", k).dir
  /\ \A j \in FileIndexes :
       Has("ensureTarget", j) =>
         \A x \in dest : x.from = files[j + 1] => x.dir = Step("ensureTarget", j).dir

\* two archives with the same base name and different entries have both been
\* moved into one directory
C29_Witness ==
  /\ pc = "done"
  /\ Len(files) = 2
  /\ Has("processed", 0)
  /\ Has("processed", 1)
  /\ BaseName(0) = BaseName(1)
  /\ Step("extract", 0).names = {"f1"}
  /\ Step("extract", 1).names = {"d1"}
  /\ \E x \in dest : \E y \in dest :
       /\ x.from = files[1] /\ x.name = "f1"
       /\ y.from = files[2] /\ y.name = "d1"
       /\ x.dir = y.dir

(***************************************************************************)
(* C30                                                                     *)
(***************************************************************************)
\* the segments of a label: its parts between the separators " / "
RECURSIVE Segments(_, _)
Segments(label, p) ==
  IF p > Len(label) THEN << SubSeq(label, 1, Len(label)) >>
  ELSE IF p + 2 <= Len(label) /\ SubSeq(label, p, p + 2) = SLASH
       THEN << SubSeq(label, 1, p - 1) >> \o Segments(SubSeq(label, p + 3, Len(label)), 1)
       ELSE Segments(label, p + 1)

\* C30 as stated: fullPath is destinationRoot / year / "<2-digit month> -
\* <Spanish month name>" / diary, plus the date folder when one is appended;
\* label is exactly the segments of fullPath below the destination root, in
\* the same order, joined with " / "; label contains the date folder if and
\* only if fullPath does.
C30_Original ==
  ResolveReturned =>
    LET f == arg.fileInfo
        r == ret[1]
    IN  /\ r.fullPath = <<toString(f.year), ExpectedMonthFolder(f.month), f.diary>>
                          \o r.dateFolderName
        /\ Segments(r.label, 1) = r.fullPath
        /\ r.label = joinLabel(r.fullPath)
        /\ \A d \in {ExpectedDateFolder(f)} :
             (Len(Segments(r.label, 1)) = 4 /\ Segments(r.label, 1)[4] = d)
               <=> (Len(r.fullPath) = 4 /\ r.fullPath[4] = d)

(***************************************************************************)
(* C31                                                                     *)
(***************************************************************************)
ExtractReturned == pc = "returned" /\ arg.fn = "extractFile"

EXT_RAR == <<".","r","a","r">>

EXT_7Z == <<".","7","z">>

\* C31: extractFile dispatches on the lower-cased extension: ".zip" spawns
\* powershell.exe (Expand-Archive), ".rar" and ".7z" spawn 7z, any other
\* extension gives "Formato de archivo no soportado" and spawns nothing; an
\* extension in upper or mixed case is dispatched like its lower-case form.
C31_DispatchByExtension ==
  ExtractReturned =>
    LET r == ret[Len(ret)]
        ext == toLowerCase(extname(arg.filePath))
    IN  /\ ext = EXT_ZIP => r.command = "powershell.exe"
        /\ ext \in {EXT_RAR, EXT_7Z} => r.command = "7z"
        /\ ext \notin {EXT_ZIP, EXT_RAR, EXT_7Z} =>
             /\ r.command = "none"
             /\ r.error = <<"Formato de archivo no soportado">>
             /\ temp = fs0.temp
        /\ r.command # "none" => r.error # <<"Formato de archivo no soportado">>

\* an archive with a mixed-case extension was handed to 7z
C31_Witness ==
  /\ ExtractReturned
  /\ arg.filePath = ArchMixedRar
  /\ ret[Len(ret)].command = "7z"
  /\ ret[Len(ret)].how = "ok"

(***************************************************************************)
(* C32                                                                     *)
(***************************************************************************)
\* the rejection messages that name a tool to install and where to get it
MissingDependencyErrors ==
  {"Para extraer archivos .rar y .7z necesitas instalar 7-Zip desde https://www.7-zip.org/"}

\* C32 as stated: for every archive kind, when the spawned tool is not found
\* (the spawn fails with ENOENT) extractFile rejects with a missing-dependency
\* error that names the tool and where to obtain it, and that differs from
\* the error for a non-zero exit code and from the error for any other spawn
\* failure.
C32_Original ==
  (ExtractReturned /\ ret[Len(ret)].how = "ENOENT") =>
    /\ ret[Len(ret)].error[1] \in MissingDependencyErrors
    /\ ret[Len(ret)].error # <<ExtractError(arg.filePath, "exit")>>
    /\ ret[Len(ret)].error # <<ExtractError(arg.filePath, "spawn")>>

(***************************************************************************)
(* C33                                                                     *)
(***************************************************************************)
\* safeRemoveDir has returned to its caller
RemoveReturned == pc = "removed"

\* C33: safeRemoveDir stops at the first attempt that succeeds, or that finds
\* the path absent (then fs.remove is not called); after failed attempt number
\* n that is not the last it waits n * 2000 ms before the next attempt, so
\* the waits strictly increase; after the last failed attempt it does not wait.
C33_RetrySchedule ==
  /\ \A n \in 1..Len(waits) : waits[n] = n * RetryDelay
  /\ \A n \in 1..(Len(waits) - 1) : waits[n] < waits[n + 1]
  /\ pc = "remove" =>
       /\ removeCalls = attempt - 1
       /\ Len(waits) = removeCalls
       /\ removeCalls > 0 => temp[tempDir].exists
  /\ (removeCalls > 0 /\ ~temp[tempDir].exists) =>
       /\ RemoveReturned
       /\ Len(waits) = removeCalls - 1
  /\ (RemoveReturned /\ fs0.temp[tempDir].exists /\ maxRetries > 0) =>
       /\ removeCalls >= 1
       /\ Len(waits) = removeCalls - 1
       /\ temp[tempDir].exists => removeCalls = maxRetries
  /\ (RemoveReturned /\ ~fs0.temp[tempDir].exists) =>
       removeCalls = 0 /\ waits = <<>>

\* the third attempt succeeded, after waits of 2000 and 4000 ms
C33_Witness ==
  /\ RemoveReturned
  /\ ~temp[tempDir].exists
  /\ removeCalls = 3
  /\ waits = <<RetryDelay, 2 * RetryDelay>>
  /\ maxRetries > 3

(***************************************************************************)
(* C34                                                                     *)
(***************************************************************************)
\* the items previewFiles returns for the directory the batch was started on
PreviewOfBatch ==
  previewFiles(inputExists, dropboxExists, fs0.inputDir, useDateFolder).items

\* the names preview lists with willProcess = true that are in selectedFiles
PreviewedAndSelected ==
  {PreviewOfBatch[n].fileName : n \in 1..Len(PreviewOfBatch)}
    \cap {selectedFiles[n] : n \in 1..Len(selectedFiles)}

\* C34 as stated: on an unchanged input directory every file that preview
\* lists with willProcess = true and that is named in selectedFiles is in the
\* batch: it is counted in the total of the progress events, and when the
\* batch returns it is counted in processed or has an "Error procesando" entry.
C34_Original ==
  (pc = "done" /\ ~SinkThrew /\ ~ScanThrew) =>
    \A name \in PreviewedAndSelected :
      /\ includes(files, name)
      /\ \E n \in 1..Len(events) : events[n].total = Len(files)
      /\ \A j \in FileIndexes : files[j + 1] = name =>
           Has("processed", j) \/ ErrorsAbout("Error procesando", j) # {}

(***************************************************************************)
(* C35                                                                     *)
(***************************************************************************)
\* C35 as stated: for every file the batch has processed successfully, the
\* directory its extracted entries were moved into is the targetPath preview
\* reports for the same file name with the same useDateFolder flag.
C35_Original ==
  \A j \in FileIndexes :
    (Has("processed", j) /\ log[Len(log)].op = "processed") =>
      \E n \in 1..Len(PreviewOfBatch) :
        /\ PreviewOfBatch[n].fileName = files[j + 1]
        /\ PreviewOfBatch[n].targetPath = Step("ensureTarget", j).dir

(***************************************************************************)
(* C36                                                                     *)
(***************************************************************************)
\* the number of entries of result.errors of one kind
ErrorCount(kind) ==
  Cardinality({n \in 1..Len(result.errors) : result.errors[n].kind = kind})

\* the files whose processing has finished: the loop has left them behind, or
\* processFile has returned and the source archive is about to be removed
FinishedFiles == i + (IF pc = "deleteOriginal" THEN 1 ELSE 0)

CountsAgree ==
  /\ result.processed + ErrorCount("Error procesando") = FinishedFiles
  /\ ErrorCount("Advertencia") <= result.processed
  /\ result.success =>
       /\ events # <<>>
       /\ \A n \in 1..Len(events) :
            result.processed + ErrorCount("Error procesando") = events[n].total

\* C36: at every point of a batch processed plus the number of "Error
\* procesando" entries equals the number of files whose processing has
\* finished, and the number of "Advertencia" entries is at most processed;
\* processed never decreases; when the batch returns success = true,
\* processed plus the number of "Error procesando" entries equals the total
\* of the progress events.
C36_Counts ==
  /\ []CountsAgree
  /\ [][result'.processed >= result.processed]_vars

\* a batch of two files returned success: one failed, one was counted and
\* its source archive could not be removed
C36_Witness ==
  /\ pc = "done"
  /\ result.success
  /\ Len(files) = 2
  /\ result.processed = 1
  /\ ErrorCount("Error procesando") = 1
  /\ ErrorCount("Advertencia") = 1

(***************************************************************************)
(* C37                                                                     *)
(***************************************************************************)
\* the files of the directory the batch was started on that have a supported
\* extension and a name that parses, and that are named in selectedFiles
EligibleAndSelected ==
  {fs0.inputDir[n].name : n \in
     {m \in 1..Len(fs0.inputDir) :
        /\ fs0.inputDir[m].isFile
        /\ includes(selectedFiles, fs0.inputDir[m].name)
        /\ toLowerCase(extname(fs0.inputDir[m].name)) \in supportedExtensions
        /\ parseFileName(fs0.inputDir[m].name) # null}}

\* C37 as stated: every progress event of a batch carries the same total,
\* the number of distinct files that are named in selectedFiles and are
\* eligible in the input directory (supported extension, parseable name);
\* names listed twice, absent from the directory or not eligible do not
\* change it.
C37_Original ==
  /\ \A n \in 1..Len(events) : events[n].total = events[1].total
  /\ Len(events) = 1 => events[1].total = Cardinality(EligibleAndSelected)

(***************************************************************************)
(* C38                                                                     *)
(***************************************************************************)
\* a step of processFile on the file at index i is being taken
InProcessFile ==
  pc \in {"ensureTemp", "extract", "readTemp", "ensureTarget", "move", "remove"}

\* the names of the top-level entries the extraction of the file at index i wrote
ExtractedNames ==
  IF Has("extract", i) THEN Step("extract", i).names ELSE {}

\* what a step leaves alone in the destination root: the entries of other
\* directories, the entries of the target directory that no extracted entry
\* collides with, the other temporary directories
FrameKept ==
  /\ \A k \in TempKeys : k # tempDir => temp'[k] = temp[k]
  /\ destDirs \subseteq destDirs'
  /\ (dest' # dest \/ destDirs' # destDirs) =>
       /\ InProcessFile
       /\ destDirs' \ destDirs \subseteq {targetDir}
       /\ \A x \in dest' \ dest : x.dir = targetDir
       /\ \A x \in dest \ dest' : x.dir = targetDir /\ x.name \in ExtractedNames

\* C38 as stated: processing a file leaves unchanged every entry of its
\* target directory whose name does not collide with a top-level extracted
\* entry, and every directory of the destination root other than the file's
\* target directory and its temporary directory.
C38_Original ==
  [][FrameKept]_vars

(***************************************************************************)
(* C39                                                                     *)
(***************************************************************************)
\* the startZipProcessing calls whose backend call is outstanding
Outstanding == {k \in 1..Len(ui.runs) : ui.runs[k].phase = "call"}

\* the startZipProcessing calls that have not reached the end of their
\* finally block
Running == {k \in 1..Len(ui.runs) : ui.runs[k].phase # "over"}

\* C39 as stated: zipIsProcessing is true exactly while a startZipProcessing
\* backend call is outstanding, and at most one is.
C39_Original ==
  /\ Cardinality(Outstanding) <= 1
  /\ ui.zipIsProcessing <=> Outstanding # {}

\* C39, amended: zipIsProcessing is true while a startZipProcessing backend
\* call is outstanding and, after a success, until the destination has been
\* opened and the preview refreshed; a click while it is true starts no
\* second batch, so at most one batch is in flight; it is false again once
\* the call has ended, whether the backend call resolved with success,
\* resolved with failure or rejected.
C39_OneBatchInFlight ==
  /\ Cardinality(Running) <= 1
  /\ Cardinality(Outstanding) <= 1
  /\ ui.zipIsProcessing <=> Running # {}
  /\ Len(ui.runs) + ui.refused <= ui.steps
  /\ \A k \in 1..Len(ui.runs) :
       /\ ui.runs[k].phase \in {"open", "preview"} => ui.runs[k].outcome = "success"
       /\ ui.runs[k].phase = "over" => ui.runs[k].outcome # "none"

\* a click during the first batch started nothing; that batch ended by a
\* rejection, and a second one, started afterwards, by a success
C39_Witness ==
  /\ Len(ui.runs) = 2
  /\ ui.refused = 1
  /\ \A k \in 1..2 : ui.runs[k].phase = "over"
  /\ ui.runs[1].outcome = "reject"
  /\ ui.runs[2].outcome = "success"
  /\ ~ui.zipIsProcessing

(***************************************************************************)
(* C40                                                                     *)
(***************************************************************************)
\* no preview, settings, save or batch request is pending
Quiescent ==
  /\ ui.settings = "done"
  /\ ui.previews = {}
  /\ ui.saves = 0
  /\ Running = {}

\* C40 as stated: once all pending preview and settings requests have
\* resolved, the file list of the archive preview is the preview of the
\* current zipInputPath: the list never shows the files of one folder while
\* zipInputPath names another.
C40_Original ==
  (pc = "ui" /\ Quiescent /\ ui.shown # "") => ui.shown = ui.zipInputPath

====
